---- MODULE Spec2Model ----
(***************************************************************************)
(* Verification model of nsch0e/opencubes (cpp):                           *)
(*   - CubeStorage with the thread-local read cache (cubeSwapSet.cpp)      *)
(*   - the sharded index Subsubhashy / Subhashy (hashes.hpp)               *)
(*   - CacheWriter::save and its worker pool (newCache)                    *)
(*   - CompressedCube::encode / decode (compressedCube.hpp)                *)
(* Offsets are byte offsets, files are sequences of bytes.                 *)
(***************************************************************************)
EXTENDS Integers, Sequences, FiniteSets, TLC

(***************************************************************************)
(* Bounds of the model.                                                    *)
(***************************************************************************)
\* number of XYZ per cube in the storage models (m_cube_size)
CubeSize == 3
\* number of client threads of the storage model
NumThreads == 2
\* records one storage file may receive before a discard()
MaxRecords == 2
\* number of discard() calls (m_storage_version values reached)
MaxVersion == 1
\* calls of Hashy::insert in one run of the index model
MaxInserts == 3
\* worker threads of the CacheWriter (the code starts 8 by default)
NumWorkers == 1
\* entries of one thread's read cache in the model (the code keeps 1024)
CacheCap == 3

\* records already committed to the storage whose read cache is exercised
CachedRecords == 4

\* cells of the largest cube the encode/decode round trip is given
MaxCells == 4

\* the largest n Hashy::init is called with
MaxN == 4

\* entries of the largest shape table a cache file is given
MaxShapes == 2

\* worker threads of the CacheWriter whose locking is modelled
NumFlushers == 2

\* copy and flush jobs scheduled in one run
MaxJobs == 4

\* largest int written through a mapped region
MaxValue == 1

\* largest number of cubes in a range of a cache
MaxRangeCubes == 2

\* largest number of files that are created under the name of one storage
MaxFiles == 2

\* largest number of storages constructed one after the other
MaxStorages == 2

\* number of addresses a storage can be constructed at
NumAddrs == 2

\* cells of the longest straight cube handed to encode()
MaxStem == 65

(***************************************************************************)
(* Program constants.                                                      *)
(***************************************************************************)
\* sizeof(XYZ): struct XYZ { int8_t data[3]; }
XYZ_SIZE == 3
\* number of Subsubhashy in a Subhashy: Subhashy(32, n, base_path)
NUM == 32
\* cacheformat::MAGIC, 0x42554350
MAGIC == 1112884048

\* sizeof(int) of the struct_region<int> of the mapped file tests
SizeofInt == 4

\* mapped::PAGE_SIZE
PAGE_SIZE == 4096

(***************************************************************************)
(* XYZ, Cube and their byte image.                                         *)
(***************************************************************************)
\* (uint8_t) of an int8_t
ToByte(v) == IF v < 0 THEN v + 256 ELSE v

\* (int8_t) of a byte read back from a file
FromByte(b) == IF b >= 128 THEN b - 256 ELSE b

\* the bytes writeAt() takes from cube.data(): x, y, z of every XYZ in order
CubeBytes(cube) ==
    [i \in 1..(Len(cube) * XYZ_SIZE) |->
        ToByte(cube[((i - 1) \div XYZ_SIZE) + 1][((i - 1) % XYZ_SIZE) + 1])]

\* the cube readAt() fills into tmp.data() from n * sizeof(XYZ) bytes
BytesCube(bytes) ==
    [k \in 1..(Len(bytes) \div XYZ_SIZE) |->
        << FromByte(bytes[(k - 1) * XYZ_SIZE + 1]),
           FromByte(bytes[(k - 1) * XYZ_SIZE + 2]),
           FromByte(bytes[(k - 1) * XYZ_SIZE + 3]) >>]

\* mapped::file::writeAt(offset, n, src): the file grows (zero filled) to cover the run
WriteAt(file, off, bytes) ==
    LET newLen == IF off + Len(bytes) > Len(file) THEN off + Len(bytes) ELSE Len(file)
    IN [i \in 1..newLen |->
          IF i > off /\ i <= off + Len(bytes) THEN bytes[i - off]
          ELSE IF i <= Len(file) THEN file[i] ELSE 0]

\* mapped::file::readAt(offset, n, dst); bytes past the end read as zero
ReadAt(file, off, n) ==
    [i \in 1..n |-> IF off + i <= Len(file) THEN file[off + i] ELSE 0]

\* XYZ::operator+ on int8_t (wraps like the int8_t arithmetic of the code)
WrapInt8(v) == FromByte(v % 256)

XYZAdd(a, b) == << WrapInt8(a[1] + b[1]), WrapInt8(a[2] + b[2]), WrapInt8(a[3] + b[3]) >>

\* XYZ::operator uint32_t
XYZKey(p) == ToByte(p[1]) * 65536 + ToByte(p[2]) * 256 + ToByte(p[3])

(***************************************************************************)
(* size_t arithmetic of HashCube / CubePtrHash: a 64-bit value is kept as  *)
(* four 16-bit limbs, least significant first.                             *)
(***************************************************************************)
Limb == 2 ^ 16

RECURSIVE BitXor(_, _)
BitXor(a, b) ==
    IF a = 0 THEN b
    ELSE IF b = 0 THEN a
    ELSE (((a % 2) + (b % 2)) % 2) + 2 * BitXor(a \div 2, b \div 2)

\* a value below 2^31 widened to size_t
U64(v) == << v % Limb, v \div Limb, 0, 0 >>

\* a + b on size_t (wraps at 2^64)
U64Add(a, b) ==
    LET s1 == a[1] + b[1]
        s2 == a[2] + b[2] + (s1 \div Limb)
        s3 == a[3] + b[3] + (s2 \div Limb)
        s4 == a[4] + b[4] + (s3 \div Limb)
    IN << s1 % Limb, s2 % Limb, s3 % Limb, s4 % Limb >>

\* seed << 6
U64Shl6(a) ==
    << (a[1] * 64) % Limb,
       ((a[2] * 64) % Limb) + (a[1] \div 1024),
       ((a[3] * 64) % Limb) + (a[2] \div 1024),
       ((a[4] * 64) % Limb) + (a[3] \div 1024) >>

\* seed >> 2
U64Shr2(a) ==
    << (a[1] \div 4) + (a[2] % 4) * 16384,
       (a[2] \div 4) + (a[3] % 4) * 16384,
       (a[3] \div 4) + (a[4] % 4) * 16384,
       a[4] \div 4 >>

\* a ^ b
U64Xor(a, b) == << BitXor(a[1], b[1]), BitXor(a[2], b[2]), BitXor(a[3], b[3]), BitXor(a[4], b[4]) >>

\* a % m for a small m
U64Mod(a, m) == ((((((a[4] % m) * Limb + a[3]) % m) * Limb + a[2]) % m) * Limb + a[1]) % m

\* 0x9e3779b9
Golden == << 31161, 40503, 0, 0 >>

\* seed ^= x + 0x9e3779b9 + (seed << 6) + (seed >> 2), for each point in turn
RECURSIVE HashFrom(_, _, _)
HashFrom(cube, i, seed) ==
    IF i > Len(cube) THEN seed
    ELSE HashFrom(cube, i + 1,
           U64Xor(seed, U64Add(U64Add(U64Add(U64(XYZKey(cube[i])), Golden), U64Shl6(seed)),
                               U64Shr2(seed))))

HashCube(cube) == HashFrom(cube, 1, U64(Len(cube)))

(***************************************************************************)
(* The cubes the clients insert: lines of CubeSize cells along an axis.    *)
(***************************************************************************)
LineCube(d) == [i \in 1..CubeSize |-> << (i - 1) * d[1], (i - 1) * d[2], (i - 1) * d[3] >>]

Cubes == { LineCube(<<0, 0, 1>>), LineCube(<<-1, 0, 0>>) }

\* the cubes the clients of the index insert
IdxCubes == Cubes \cup { LineCube(<<0, 1, 0>>) }

Threads == 1..NumThreads

\* m_cube_size * sizeof(XYZ)
RecordSize == CubeSize * XYZ_SIZE

(***************************************************************************)
(* State.                                                                  *)
(***************************************************************************)
VARIABLES
    \* CubeStorage (cubeSwapSet.cpp 177-300)
    m_alloc_seek,        \* append cursor, byte offset
    m_file,              \* TRUE when m_file holds an open mapped::file
    disk,                \* bytes of the file m_fpath
    m_storage_version,
    \* ThreadCache of every thread: local_enabled, local_seek, local, lru, cache
    tc,
    \* Subsubhashy: the CubeSwapSet (nodes in insertion order) and the holders of set_mutex
    set,
    set_mutex,
    \* every client thread: position in insert(), candidate, CubePtr, hash code of the
    \* key, nodes still to compare
    pc, cand, ptr, hcode, todo,
    \* viaLock[t]: the running insert of t called local() with set_mutex held
    viaLock,
    \* program ended by abort()
    aborted,
    \* observations: pub[s] is the cube published by local()+commit() under CubePtr s
    \* since the last discard(), prev[s] the one published under s before it; rd is the
    \* last read() (a set of at most one record); assertFailed: for every
    \* commit() that found local_seek # m_alloc_seek, the viaLock of its insert
    pub, prev, rd, assertFailed

storageVars == << m_alloc_seek, m_file, disk, m_storage_version, tc, set, set_mutex,
                  pc, cand, ptr, hcode, todo, viaLock, aborted, pub, prev, rd, assertFailed >>

VARIABLES
    \* Hashy::byshape: shape -> Subhashy, a Subhashy maps 0..NUM-1 to its Subsubhashy
    byshape,
    \* every client thread in Hashy::insert: position, cube, shape, shard index, CubePtr
    ipc, icand, ishape, iidx, iptr,
    \* program ended by abort() in the index
    hashyAbort,
    \* observations: before[t] is the shard as t found it when it took the lock, last
    \* the outcome of the insert that returned last (a set of at most one record),
    \* inserted the (shape, cube) pairs passed to insert, calls their number, overlap
    \* tells that two inserts of one cube into one shape were in progress together
    before, last, inserted, calls, overlap

indexVars == << byshape, ipc, icand, ishape, iidx, iptr, hashyAbort,
                before, last, inserted, calls, overlap >>

VARIABLES
    \* the build: alignment of uint64_t inside a struct (8, or 4 as on i386)
    u64align,
    \* CacheWriter: m_active, the job queues and their counters; every worker
    \* thread's position in run() and the job it took
    m_active, m_copy, m_num_copys, m_flushes, m_num_flushes, wpc, wjob,
    \* the call of save(): position, the header and the sorted keys, the shape table
    \* entries written so far, the locals offset, num_cubes, the loop index and fileEnd
    spc, header, keys, shapeEntry, offset, num_cubes, si, fileEnd,
    \* the cache file: its bytes (the header and the table are kept in header and
    \* shapeEntry, their bytes in the file read 0) and "none", "open" or "closed"
    cachefile, cstate,
    \* observations: sched[i] lists, for the copy jobs save() scheduled for keys[i],
    \* the count and the bytes of the shard's file at that moment; lostCopy tells
    \* that a copy job ran after the file was closed
    sched, lostCopy

writerVars == << u64align, m_active, m_copy, m_num_copys, m_flushes, m_num_flushes, wpc, wjob,
                 spc, header, keys, shapeEntry, offset, num_cubes, si, fileEnd,
                 cachefile, cstate, sched, lostCopy >>

VARIABLES
    \* the encode/decode round trip of the cache tool: the cube read from the cache, the
    \* CompressedCube encode() returned (its enc array), the cube decode() returned,
    \* and the position of the tool ("off" where it does not run)
    ccube, enc, cout, cpc

codecVars == << ccube, enc, cout, cpc >>

VARIABLES
    \* Hashy::init and the calls that follow it: the revision of hashes.hpp, the
    \* argument n, the loop variables and the vector out of generateShapes, the
    \* position, the index of init()'s loop, byshape (for every shape the cubes of
    \* its shards), the number of calls of at() and insert(), and the last of them:
    \* its shape, whether byshape held the shape, and byshape before the call
    hrev, hn, gx, gy, gz, gout, hpc, hi, hmap, hcalls, hlast

hashyVars == << hrev, hn, gx, gy, gz, gout, hpc, hi, hmap, hcalls, hlast >>

VARIABLES
    \* CacheReader: the file file_ holds and the file header_ maps (as records of
    \* their contents), fileLoaded_, where header and shapes point, the result of
    \* the last loadFile (-1: none since unload), the last getCubesByShape that
    \* followed it, and whether the program runs
    file_, header_, fileLoaded_, rheader, rshapes, rret, rget, rpc

readerVars == << file_, header_, fileLoaded_, rheader, rshapes, rret, rget, rpc >>

VARIABLES
    \* CacheWriter under its mutex: m_active, the queues m_copy and m_flushes (of
    \* job numbers) and their counters, every worker thread's position in run() and
    \* the job it took, the position of the thread that calls save() and the
    \* destructor, the number of jobs scheduled, and how often each job was executed
    q_active, q_copy, q_flushes, q_num_copys, q_num_flushes, qpc, qjob, fpc, issued, executed

syncVars == << q_active, q_copy, q_flushes, q_num_copys, q_num_flushes, qpc, qjob, fpc,
               issued, executed >>

VARIABLES
    \* mapped::file: fsys the files of the directory by name, mfile the
    \* mapped::file object, mresult the value the last open or region
    \* constructor gave, mregion the struct_region<int>, mread the int last read
    \* through it, mlast the last operation
    fsys, mfile, mresult, mregion, mread, mlast

mappedVars == << fsys, mfile, mresult, mregion, mread, mlast >>

VARIABLES
    \* Hashy::set_mutex: krev the revision of hashes.hpp, kmap the shapes in
    \* byshape, kshared the threads holding the shared lock, kexcl the thread
    \* holding it exclusively (0: none), kmod the threads that are adding a node
    \* to byshape, kpc, kshape and kidx each thread's position, shape and loop
    \* index, knum what numShapes() last returned to it
    krev, kmap, kshared, kexcl, kmod, kpc, kshape, kidx, knum

lockVars == << krev, kmap, kshared, kexcl, kmod, kpc, kshape, kidx, knum >>

VARIABLES
    \* a range of cubes in a cache and two iterators over it: the flavour of the
    \* range, its cube length, the positions its begin() and end() hold, its
    \* size(), the position of an iterator copied from begin() and the number of
    \* cubes it was advanced by, the same of its clone (-1: no clone)
    itkind, itn, itbegin, itend, itsize, itpos, itcount, clpos, clcount

iterVars == << itkind, itn, itbegin, itend, itsize, itpos, itcount, clpos, clcount >>

VARIABLES
    \* expand() and Workset::recurse: the cube expand() is called with, the
    \* candidate cube, the rotation handed to the hash set, the cubes of the hash
    \* set, what the leaf of the recursion returned (-1: not reached), and the
    \* position of the driver
    xc, newCube, lowestHashCube, xhashes, recnum, xpc

canonVars == << xc, newCube, lowestHashCube, xhashes, recnum, xpc >>

VARIABLES
    \* one shard's CubeStorage and the copy job of save() for it: lnamed the file
    \* that m_fpath names in the directory (0: none), ldata the bytes of every
    \* file created, lmade their number, lfile the file m_file holds (0: null),
    \* lseek m_alloc_seek, lsize the size of the shard's set, ljob the copy job
    \* (the file and the count it captured and its state), lout the bytes it
    \* copied; observations: lheld the bytes of the records when save() scheduled
    \* the job, lreopened tells that commit() opened m_fpath after that, lpc
    \* whether the program runs
    lnamed, ldata, lmade, lfile, lseek, lsize, ljob, lout, lheld, lreopened, lpc

relinkVars == << lnamed, ldata, lmade, lfile, lseek, lsize, ljob, lout, lheld, lreopened, lpc >>

VARIABLES
    \* the CubeStorage object: saddr the address it was constructed at (the
    \* pointer in the keys of the read caches), sgen how many storages have been
    \* constructed so far (an observation)
    saddr, sgen

reuseVars == << saddr, sgen >>

vars == << storageVars, indexVars, writerVars, codecVars, hashyVars, readerVars, syncVars,
           mappedVars, lockVars, iterVars, canonVars, relinkVars, reuseVars >>

\* what the actions of one component leave alone
notStorage == << indexVars, writerVars, codecVars, hashyVars, readerVars, syncVars, mappedVars,
    lockVars, iterVars, canonVars, relinkVars, reuseVars >>

notIndex == << storageVars, writerVars, codecVars, hashyVars, readerVars, syncVars, mappedVars,
    lockVars, iterVars, canonVars, relinkVars, reuseVars >>

notWriter == << storageVars, indexVars, codecVars, hashyVars, readerVars, syncVars, mappedVars,
    lockVars, iterVars, canonVars, relinkVars, reuseVars >>

notCodec == << storageVars, indexVars, writerVars, hashyVars, readerVars, syncVars, mappedVars,
    lockVars, iterVars, canonVars, relinkVars, reuseVars >>

notHashy == << storageVars, indexVars, writerVars, codecVars, readerVars, syncVars, mappedVars,
    lockVars, iterVars, canonVars, relinkVars, reuseVars >>

notReader == << storageVars, indexVars, writerVars, codecVars, hashyVars, syncVars, mappedVars,
    lockVars, iterVars, canonVars, relinkVars, reuseVars >>

notSync == << storageVars, indexVars, writerVars, codecVars, hashyVars, readerVars, mappedVars,
    lockVars, iterVars, canonVars, relinkVars, reuseVars >>

\* everything but the mapped file
notMapped == << storageVars, indexVars, writerVars, codecVars, hashyVars, readerVars, syncVars,
    lockVars, iterVars, canonVars, relinkVars, reuseVars >>

\* everything but the lock of the shape map
notLock == << storageVars, indexVars, writerVars, codecVars, hashyVars, readerVars, syncVars,
    mappedVars, iterVars, canonVars, relinkVars, reuseVars >>

notIter == << storageVars, indexVars, writerVars, codecVars, hashyVars, readerVars, syncVars,
    mappedVars, lockVars, canonVars, relinkVars, reuseVars >>

notCanon == << storageVars, indexVars, writerVars, codecVars, hashyVars, readerVars, syncVars,
    mappedVars, lockVars, iterVars, relinkVars, reuseVars >>

notRelink == << storageVars, indexVars, writerVars, codecVars, hashyVars, readerVars, syncVars,
    mappedVars, lockVars, iterVars, canonVars, reuseVars >>

notReuse == << storageVars, indexVars, writerVars, codecVars, hashyVars, readerVars, syncVars,
    mappedVars, lockVars, iterVars, canonVars, relinkVars >>

Workers == 1..NumWorkers

(***************************************************************************)
(* ThreadCache and CubeStorage::read.                                      *)
(***************************************************************************)
\* ThreadCache::entry of this storage: seek, version and the pointer to the storage
CacheKey(seek) == << seek, m_storage_version, saddr >>

\* thread_local ThreadCache instance as constructed
EmptyThreadCache ==
    [local_enabled |-> FALSE, local_seek |-> -1, local |-> << >>,
     lru |-> << >>, cache |-> << >>]

\* key's position in the LRU list
LruIndex(lru, key) == CHOOSE i \in 1..Len(lru) : lru[i] = key

\* std::list::splice(pos, list, list.end()): the end node is relinked before pos,
\* which leaves the circular list starting at pos (libstdc++ and libc++)
SpliceEndBefore(lru, i) == SubSeq(lru, i, Len(lru)) \o SubSeq(lru, 1, i - 1)

\* an eviction that leaves the entry in the map
CacheKeepsAll(cache, key) == cache

\* a cache function without one key
CacheWithout(cache, key) == [k \in (DOMAIN cache) \ {key} |-> cache[k]]

\* a cache function with one more key
CacheWith(cache, key, val) ==
    [k \in (DOMAIN cache) \cup {key} |-> IF k = key THEN val ELSE cache[k]]

\* cache-hit path of read(): the outcomes of the splice with end() as source
\* are the relinked list or, in a checked-iterator build, abort()
ReadHit(ctx, key) ==
    LET i == LruIndex(ctx.lru, key)
        val == ctx.cache[key]
    IN IF i = Len(ctx.lru)
       THEN { [val |-> val.cube, born |-> val.born, hit |-> TRUE, abort |-> FALSE, ctx |-> ctx] }
       ELSE { [val |-> val.cube, born |-> val.born, hit |-> TRUE, abort |-> FALSE,
               ctx |-> [ctx EXCEPT !.lru = SpliceEndBefore(ctx.lru, i)]],
              [val |-> val.cube, born |-> val.born, hit |-> TRUE, abort |-> TRUE, ctx |-> ctx] }

\* cache-miss path of read(): evict the front entry of a full cache, read the
\* record from the file, append the new entry at the back (born and gen: the
\* version and the storage under which the entry was made, observations)
ReadMiss(ctx, key) ==
    LET full   == Cardinality(DOMAIN ctx.cache) >= CacheCap
        lru1   == IF full THEN Tail(ctx.lru) ELSE ctx.lru
        cache1 == IF full THEN CacheWithout(ctx.cache, Head(ctx.lru)) ELSE ctx.cache
        tmp    == BytesCube(ReadAt(disk, key[1], RecordSize))
    IN { [val |-> tmp, born |-> m_storage_version, hit |-> FALSE, abort |-> FALSE,
          ctx |-> [ctx EXCEPT !.lru = Append(lru1, key),
                              !.cache = CacheWith(cache1, key,
                                          [cube |-> tmp, born |-> m_storage_version,
                                           gen |-> sgen])]] }

\* variant of the test below that ignores the seek offset
IsLocalPtrNoSeek(ctx, seek) == ctx.local_enabled

\* the test of read() for "x is the object returned by local()"
IsLocalPtr(ctx, seek) == ctx.local_enabled /\ seek = ctx.local_seek

\* const Cube& CubeStorage::read(const CubePtr& x) const
StorageRead(ctx, seek) ==
    IF IsLocalPtr(ctx, seek)
    THEN { [val |-> ctx.local, born |-> m_storage_version, hit |-> FALSE,
            abort |-> FALSE, ctx |-> ctx] }
    ELSE IF CacheKey(seek) \in DOMAIN ctx.cache
         THEN ReadHit(ctx, CacheKey(seek))
         ELSE ReadMiss(ctx, CacheKey(seek))

\* variant of local() that does not record the cursor
StorageLocalNoSeek(ctx, cube) == [ctx EXCEPT !.local = cube, !.local_enabled = TRUE]

\* CubePtr CubeStorage::local(const Cube& cube) const
StorageLocal(ctx, cube) ==
    [ctx EXCEPT !.local = cube, !.local_seek = m_alloc_seek, !.local_enabled = TRUE]

\* void CubeStorage::drop() const
StorageDrop(ctx) == [ctx EXCEPT !.local_enabled = FALSE, !.local_seek = -1]

\* variant of the advance that counts points instead of bytes
CommitAdvanceNoSize(seek) == seek + CubeSize

\* the cursor after commit()
CommitAdvance(seek) == seek + CubeSize * XYZ_SIZE

\* variant of discard() that keeps the cursor
DiscardSeekKept(seek) == seek

\* the cursor after discard() of an open file: m_alloc_seek = 0
DiscardSeek(seek) == 0

\* variant of discard() that keeps the version
DiscardVersionSame(v) == v

\* the version after discard()
DiscardVersion(v) == v + 1

(***************************************************************************)
(* Initial state: storage constructed, no file yet, all thread caches empty.*)
(***************************************************************************)
StorageInit ==
    /\ m_alloc_seek = 0
    /\ m_file = FALSE
    /\ disk = << >>
    /\ m_storage_version = 0
    /\ tc = [t \in Threads |-> EmptyThreadCache]
    /\ set = << >>
    /\ set_mutex = {}
    /\ pc = [t \in Threads |-> "idle"]
    /\ cand = [t \in Threads |-> << >>]
    /\ ptr = [t \in Threads |-> -1]
    /\ hcode = [t \in Threads |-> U64(0)]
    /\ todo = [t \in Threads |-> {}]
    /\ viaLock = [t \in Threads |-> TRUE]
    /\ aborted = FALSE
    /\ pub = << >>
    /\ prev = << >>
    /\ rd = {}
    /\ assertFailed = {}

\* records in the file plus inserts in flight
RecordsInUse == (m_alloc_seek \div RecordSize) + Cardinality({u \in Threads : pc[u] # "idle"})

\* the nodes emplace() may compare the new key with: every node whose hash code
\* equals the key's, and, in a library that does not compare hash codes first,
\* the other nodes of its bucket as well (the set starts with one bucket)
ProbeSets(h) ==
    { { i \in 1..Len(set) : set[i].hash = h }, 1..Len(set) }

\* size_t CubePtrHash::operator()(const CubePtr& x): the outcomes are records
\* [hash, abort, ctx]
CubePtrHash(ctx, x) ==
    { [hash |-> HashCube(o.val), abort |-> o.abort, ctx |-> o.ctx] : o \in StorageRead(ctx, x) }

\* CubePtrEqual::operator()(a, b): a.get(*m_storage) == b.get(*m_storage);
\* the outcomes are records [equal, abort, ctx]
CubePtrEqual(ctx, a, b) ==
    UNION { { [equal |-> (o1.val = o2.val), abort |-> (o1.abort \/ o2.abort), ctx |-> o2.ctx] :
                o2 \in StorageRead(o1.ctx, b) } :
            o1 \in StorageRead(ctx, a) }

\* Subsubhashy::insert(c): std::lock_guard lock(set_mutex), then the storage
\* stages the candidate, then emplace() hashes the new key
InsertLocked(t, c) ==
    /\ ~aborted
    /\ pc[t] = "idle"
    /\ RecordsInUse < MaxRecords
    /\ set_mutex = {}
    /\ set_mutex' = {t}
    /\ cand' = [cand EXCEPT ![t] = c]
    /\ viaLock' = [viaLock EXCEPT ![t] = TRUE]
    /\ ptr' = [ptr EXCEPT ![t] = StorageLocal(tc[t], c).local_seek]
    /\ \E h \in CubePtrHash(StorageLocal(tc[t], c), StorageLocal(tc[t], c).local_seek) :
         /\ tc' = [tc EXCEPT ![t] = h.ctx]
         /\ aborted' = h.abort
         /\ hcode' = [hcode EXCEPT ![t] = h.hash]
         /\ \E S \in ProbeSets(h.hash) : todo' = [todo EXCEPT ![t] = S]
    /\ pc' = [pc EXCEPT ![t] = "probe"]
    /\ UNCHANGED << m_alloc_seek, m_file, disk, m_storage_version, set,
                    pub, prev, rd, assertFailed >>
    /\ UNCHANGED notStorage

\* the insert protocol as the specification words it, step 1: the caller stages
\* the candidate with storage.local() before it takes the shard's lock
StageLocal(t, c) ==
    /\ ~aborted
    /\ pc[t] = "idle"
    /\ RecordsInUse < MaxRecords
    /\ cand' = [cand EXCEPT ![t] = c]
    /\ viaLock' = [viaLock EXCEPT ![t] = FALSE]
    /\ tc' = [tc EXCEPT ![t] = StorageLocal(tc[t], c)]
    /\ ptr' = [ptr EXCEPT ![t] = StorageLocal(tc[t], c).local_seek]
    /\ pc' = [pc EXCEPT ![t] = "staged"]
    /\ UNCHANGED << m_alloc_seek, m_file, disk, m_storage_version, set, set_mutex,
                    hcode, todo, aborted, pub, prev, rd, assertFailed >>
    /\ UNCHANGED notStorage

\* step 2 and 3: the caller takes the exclusive lock and emplace() hashes the key
LockStaged(t) ==
    /\ ~aborted
    /\ pc[t] = "staged"
    /\ set_mutex = {}
    /\ set_mutex' = {t}
    /\ \E h \in CubePtrHash(tc[t], ptr[t]) :
         /\ tc' = [tc EXCEPT ![t] = h.ctx]
         /\ aborted' = h.abort
         /\ hcode' = [hcode EXCEPT ![t] = h.hash]
         /\ \E S \in ProbeSets(h.hash) : todo' = [todo EXCEPT ![t] = S]
    /\ pc' = [pc EXCEPT ![t] = "probe"]
    /\ UNCHANGED << m_alloc_seek, m_file, disk, m_storage_version, set,
                    cand, ptr, viaLock, pub, prev, rd, assertFailed >>
    /\ UNCHANGED notStorage

\* set.emplace(ptr), one comparison of the new key with a node of the set
Probe(t, i) ==
    /\ ~aborted
    /\ pc[t] = "probe"
    /\ i \in todo[t]
    /\ \E e \in CubePtrEqual(tc[t], ptr[t], set[i].seek) :
         /\ tc' = [tc EXCEPT ![t] = e.ctx]
         /\ aborted' = e.abort
         /\ IF e.equal
            THEN /\ pc' = [pc EXCEPT ![t] = "drop"]
                 /\ todo' = [todo EXCEPT ![t] = {}]
            ELSE /\ pc' = pc
                 /\ todo' = [todo EXCEPT ![t] = todo[t] \ {i}]
    /\ UNCHANGED << m_alloc_seek, m_file, disk, m_storage_version, set, set_mutex,
                    cand, ptr, hcode, viaLock, pub, prev, rd, assertFailed >>
    /\ UNCHANGED notStorage

\* no node compared equal: emplace() links the key as a new node (isnew), then
\* set_storage.commit(), then the lock_guard releases set_mutex.
\* A false assert(ctx.local_seek == m_alloc_seek) ends the program in a build
\* with assertions and is skipped in an NDEBUG build.
Commit(t) ==
    /\ ~aborted
    /\ pc[t] = "probe"
    /\ todo[t] = {}
    /\ assertFailed' = IF tc[t].local_seek # m_alloc_seek THEN assertFailed \cup {viaLock[t]} ELSE assertFailed
    /\ set' = Append(set, [seek |-> ptr[t], hash |-> hcode[t]])
    /\ \/ /\ tc[t].local_seek # m_alloc_seek
          /\ aborted' = TRUE
          /\ UNCHANGED << m_alloc_seek, m_file, disk, m_storage_version, tc, set_mutex,
                          pc, cand, ptr, hcode, todo, viaLock, pub, prev, rd >>
       \/ /\ m_file' = TRUE
          /\ tc' = [tc EXCEPT ![t].local_enabled = FALSE]
          /\ disk' = WriteAt(disk, m_alloc_seek, CubeBytes(tc[t].local))
          /\ m_alloc_seek' = CommitAdvance(m_alloc_seek)
          /\ pub' = [s \in (DOMAIN pub) \cup {ptr[t]} |-> IF s = ptr[t] THEN cand[t] ELSE pub[s]]
          /\ set_mutex' = {}
          /\ pc' = [pc EXCEPT ![t] = "idle"]
          /\ UNCHANGED << m_storage_version, cand, ptr, hcode, todo, viaLock, aborted, prev, rd >>
    /\ UNCHANGED notStorage

\* a node compared equal: set_storage.drop(), then the lock_guard releases set_mutex
Drop(t) ==
    /\ ~aborted
    /\ pc[t] = "drop"
    /\ tc' = [tc EXCEPT ![t] = StorageDrop(tc[t])]
    /\ set_mutex' = {}
    /\ pc' = [pc EXCEPT ![t] = "idle"]
    /\ UNCHANGED << m_alloc_seek, m_file, disk, m_storage_version, set,
                    cand, ptr, hcode, todo, viaLock, aborted, pub, prev, rd, assertFailed >>
    /\ UNCHANGED notStorage

\* offsets of the records in the file
RecordSeeks == { k * RecordSize : k \in 0..((m_alloc_seek \div RecordSize) - 1) }

\* a client dereferences a CubePtr of this storage: CubePtr::get -> read()
Read(t, s) ==
    /\ ~aborted
    /\ pc[t] = "idle"
    /\ m_file
    /\ s \in RecordSeeks
    /\ \E o \in StorageRead(tc[t], s) :
         /\ tc' = [tc EXCEPT ![t] = o.ctx]
         /\ aborted' = o.abort
         /\ rd' = { [thread |-> t, seek |-> s, val |-> o.val, born |-> o.born, hit |-> o.hit,
                     gone |-> (DOMAIN tc[t].cache) \ (DOMAIN o.ctx.cache),
                     ver |-> m_storage_version, cursor |-> m_alloc_seek,
                     want |-> IF s \in DOMAIN pub THEN << pub[s] >> ELSE << >>,
                     old |-> IF s \in DOMAIN prev THEN << prev[s] >> ELSE << >>] }
    /\ UNCHANGED << m_alloc_seek, m_file, disk, m_storage_version, set, set_mutex,
                    pc, cand, ptr, hcode, todo, viaLock, pub, prev, assertFailed >>
    /\ UNCHANGED notStorage

\* void CubeStorage::resetReadCache() const: ctx.cache.clear(); ctx.lru.clear()
ResetReadCache(t) ==
    /\ ~aborted
    /\ pc[t] = "idle"
    /\ tc[t].lru # << >>
    /\ tc' = [tc EXCEPT ![t].cache = << >>, ![t].lru = << >>]
    /\ rd' = { r \in rd : r.thread # t }
    /\ UNCHANGED << m_alloc_seek, m_file, disk, m_storage_version, set, set_mutex,
                    pc, cand, ptr, hcode, todo, viaLock, aborted, pub, prev, assertFailed >>
    /\ UNCHANGED notStorage

\* a client calls storage.local(c) directly (rd, the result of the last read(),
\* is forgotten at every other call)
ApiLocal(t, c) ==
    /\ ~aborted
    /\ tc' = [tc EXCEPT ![t] = StorageLocal(tc[t], c)]
    /\ ptr' = [ptr EXCEPT ![t] = StorageLocal(tc[t], c).local_seek]
    /\ cand' = [cand EXCEPT ![t] = c]
    /\ rd' = {}
    /\ UNCHANGED << m_alloc_seek, m_file, disk, m_storage_version, set, set_mutex, pc,
                    hcode, todo, viaLock, aborted, pub, prev, assertFailed >>
    /\ UNCHANGED notStorage

\* variant of commit() that leaves the slot enabled
SlotKept(ctx) == ctx

\* commit(): ctx.local_enabled = false
SlotDisabled(ctx) == [ctx EXCEPT !.local_enabled = FALSE]

\* a client that called local() before calls storage.commit() directly. A false
\* assert(ctx.local_enabled) or assert(ctx.local_seek == m_alloc_seek) ends the
\* program in a build with assertions and is skipped in an NDEBUG build (the
\* default release build), which then writes ctx.local at the cursor
ApiCommit(t) ==
    /\ ~aborted
    /\ tc[t].local # << >>
    /\ m_alloc_seek < MaxRecords * RecordSize
    /\ LET ok == tc[t].local_enabled /\ tc[t].local_seek = m_alloc_seek
       IN /\ assertFailed' = IF ok THEN assertFailed ELSE assertFailed \cup {viaLock[t]}
          /\ \/ /\ ~ok
                /\ aborted' = TRUE
                /\ UNCHANGED << m_alloc_seek, m_file, disk, tc, pub >>
             \/ /\ m_file' = TRUE
                /\ tc' = [tc EXCEPT ![t] = SlotDisabled(tc[t])]
                /\ disk' = WriteAt(disk, m_alloc_seek, CubeBytes(tc[t].local))
                /\ m_alloc_seek' = CommitAdvance(m_alloc_seek)
                /\ pub' = [s \in (DOMAIN pub) \cup {m_alloc_seek} |->
                             IF s = m_alloc_seek THEN tc[t].local ELSE pub[s]]
                /\ UNCHANGED aborted
    /\ rd' = {}
    /\ UNCHANGED << m_storage_version, set, set_mutex, pc, cand, ptr, hcode, todo,
                    viaLock, prev >>
    /\ UNCHANGED notStorage

\* a client that called local() before calls storage.drop() directly; a false
\* assert(ctx.local_enabled) ends the program or is skipped, as in commit()
ApiDrop(t) ==
    /\ ~aborted
    /\ tc[t].local # << >>
    /\ assertFailed' = IF tc[t].local_enabled THEN assertFailed
                       ELSE assertFailed \cup {viaLock[t]}
    /\ \/ /\ ~tc[t].local_enabled
          /\ aborted' = TRUE
          /\ UNCHANGED tc
       \/ /\ tc' = [tc EXCEPT ![t] = StorageDrop(tc[t])]
          /\ UNCHANGED aborted
    /\ rd' = {}
    /\ UNCHANGED << m_alloc_seek, m_file, disk, m_storage_version, set, set_mutex, pc,
                    cand, ptr, hcode, todo, viaLock, pub, prev >>
    /\ UNCHANGED notStorage

\* a client calls storage.read() with the pointer local() returned or with the
\* pointer of a committed record
ApiRead(t, s) ==
    /\ ~aborted
    /\ IsLocalPtr(tc[t], s) \/ (m_file /\ s \in RecordSeeks)
    /\ \E o \in StorageRead(tc[t], s) :
         /\ tc' = [tc EXCEPT ![t] = o.ctx]
         /\ aborted' = o.abort
         /\ rd' = { [thread |-> t, seek |-> s, val |-> o.val, born |-> o.born, hit |-> o.hit,
                     gone |-> (DOMAIN tc[t].cache) \ (DOMAIN o.ctx.cache),
                     ver |-> m_storage_version, cursor |-> m_alloc_seek,
                     want |-> IF s \in DOMAIN pub THEN << pub[s] >> ELSE << >>,
                     old |-> IF s \in DOMAIN prev THEN << prev[s] >> ELSE << >>] }
    /\ UNCHANGED << m_alloc_seek, m_file, disk, m_storage_version, set, set_mutex,
                    pc, cand, ptr, hcode, todo, viaLock, pub, prev, assertFailed >>
    /\ UNCHANGED notStorage

\* the cube of the k-th record of a storage that was filled before
CachedCube(k) ==
    LineCube(<< << 0, 0, 1 >>, << -1, 0, 0 >>, << 0, 1, 0 >>, << 1, 0, 0 >>,
                << 0, -1, 0 >>, << 0, 0, -1 >> >>[((k - 1) % 6) + 1])

\* the bytes of a storage file after commit() of the first n of these cubes
RECURSIVE CachedDisk(_)
CachedDisk(n) ==
    IF n = 0 THEN << >> ELSE CachedDisk(n - 1) \o CubeBytes(CachedCube(n))

\* the offsets of these records
CachedSeeks == { (k - 1) * RecordSize : k \in 1..CachedRecords }

\* a storage after CachedRecords inserts of distinct cubes: the records are in
\* the file, the cursor is behind them, every thread's cache is still empty
FilledInit ==
    /\ m_alloc_seek = CachedRecords * RecordSize
    /\ m_file = TRUE
    /\ disk = CachedDisk(CachedRecords)
    /\ m_storage_version = 0
    /\ tc = [t \in Threads |-> EmptyThreadCache]
    /\ set = [k \in 1..CachedRecords |->
                [seek |-> (k - 1) * RecordSize, hash |-> HashCube(CachedCube(k))]]
    /\ set_mutex = {}
    /\ pc = [t \in Threads |-> "idle"]
    /\ cand = [t \in Threads |-> << >>]
    /\ ptr = [t \in Threads |-> -1]
    /\ hcode = [t \in Threads |-> U64(0)]
    /\ todo = [t \in Threads |-> {}]
    /\ viaLock = [t \in Threads |-> TRUE]
    /\ aborted = FALSE
    /\ pub = [s \in CachedSeeks |-> CachedCube((s \div RecordSize) + 1)]
    /\ prev = << >>
    /\ rd = {}
    /\ assertFailed = {}

\* the owner drops the contents: Subsubhashy::clear() and then
\* CubeStorage::discard(), while no insert is in progress
ClearDiscard(t) ==
    /\ ~aborted
    /\ \A u \in Threads : pc[u] = "idle"
    /\ set_mutex = {}
    /\ m_file => m_storage_version < MaxVersion
    /\ set' = << >>
    /\ IF m_file
       THEN /\ m_file' = FALSE
            /\ m_alloc_seek' = DiscardSeek(m_alloc_seek)
            /\ m_storage_version' = DiscardVersion(m_storage_version)
            /\ prev' = pub
            /\ pub' = << >>
       ELSE UNCHANGED << m_file, m_alloc_seek, m_storage_version, prev, pub >>
    /\ UNCHANGED << disk, tc, set_mutex, pc, cand, ptr, hcode, todo, viaLock, aborted, rd, assertFailed >>
    /\ UNCHANGED notStorage

(***************************************************************************)
(* Hashy / Subhashy / Subsubhashy (hashes.hpp) over the CubeStorage with   *)
(* allocate() and cancel_allocation().                                      *)
(***************************************************************************)
\* the loops of Hashy::generateShapes(n), continued from (x, y, z)
RECURSIVE ShapesFrom(_, _, _, _)
ShapesFrom(n, x, y, z) ==
    IF x >= n THEN << >>
    ELSE IF y >= n - x THEN ShapesFrom(n, x + 1, x + 1, x + 1)
    ELSE IF z >= n - x - y THEN ShapesFrom(n, x, y + 1, y + 1)
    ELSE (IF (x + 1) * (y + 1) * (z + 1) < n THEN << >> ELSE << << x, y, z >> >>)
         \o ShapesFrom(n, x, y, z + 1)

\* static std::vector<XYZ> Hashy::generateShapes(int n)
generateShapes(n) == ShapesFrom(n, 0, 0, 0)

\* a Subsubhashy as constructed: empty set, free set_mutex, storage without a file.
\* set holds the CubePtr offsets in insertion order, data the bytes of the storage
\* file, named tells whether the file name m_fpath exists in the directory
EmptySubsubhashy ==
    [set |-> << >>, set_mutex |-> {}, m_file |-> FALSE, m_alloc_seek |-> 0,
     m_prev_seek |-> 0, data |-> << >>, named |-> FALSE]

\* Subhashy(NUM, N, path): a deque of NUM Subsubhashy
NewSubhashy == [i \in 0..(NUM - 1) |-> EmptySubsubhashy]

\* Hashy::init(n): a Subhashy for every generated shape
HashyInit(n) ==
    LET shapes == generateShapes(n)
    IN [s \in { shapes[k] : k \in 1..Len(shapes) } |-> NewSubhashy]

\* the shapes clients pass to Hashy::insert: the generated ones and one that
\* init() did not create
InsertShapes == (DOMAIN HashyInit(CubeSize)) \cup { << 0, 0, 0 >> }

\* a routing that puts every cube into the first shard
ShardFirst(c) == 0

\* auto idx = hash(c) % byhash.size()
ShardOf(c) == U64Mod(HashCube(c), NUM)

\* Cube CubeStorage::read(const CubePtr& x) const, on the shard sh
ShardRead(sh, seek) == BytesCube(ReadAt(sh.data, seek, RecordSize))

\* the cubes the nodes of a shard's set resolve to
ShardMembers(sh) == { ShardRead(sh, sh.set[i]) : i \in 1..Len(sh.set) }

\* variant of the lock test below that never waits
MutexIgnored(sh) == TRUE

\* std::lock_guard / std::shared_lock on Subsubhashy::set_mutex can be acquired
MutexFree(sh) == sh.set_mutex = {}

\* variant of cancel_allocation() that keeps the cursor
CancelKeep(seek) == seek

\* cancel_allocation(): if (m_alloc_seek >= size) m_alloc_seek -= size
CancelSeek(seek) == IF seek >= RecordSize THEN seek - RecordSize ELSE seek

\* Subsubhashy::size()
SubsubhashySize(sh) == Len(sh.set)

\* Subhashy::size(): the sum over the shards from index i on
RECURSIVE SubhashySizeFrom(_, _)
SubhashySizeFrom(sub, i) ==
    IF i >= NUM THEN 0 ELSE SubsubhashySize(sub[i]) + SubhashySizeFrom(sub, i + 1)

SubhashySize(sub) == SubhashySizeFrom(sub, 0)

\* Hashy::size(): the sum over the shapes of a map
RECURSIVE HashySizeOver(_, _)
HashySizeOver(map, shapes) ==
    IF shapes = {} THEN 0
    ELSE LET s == CHOOSE x \in shapes : TRUE
         IN SubhashySize(map[s]) + HashySizeOver(map, shapes \ {s})

HashySize == HashySizeOver(byshape, DOMAIN byshape)

IndexInit ==
    /\ byshape = HashyInit(CubeSize)
    /\ ipc = [t \in Threads |-> "idle"]
    /\ icand = [t \in Threads |-> << >>]
    /\ ishape = [t \in Threads |-> << >>]
    /\ iidx = [t \in Threads |-> 0]
    /\ iptr = [t \in Threads |-> 0]
    /\ before = [t \in Threads |-> << >>]
    /\ last = {}
    /\ inserted = {}
    /\ calls = 0
    /\ overlap = FALSE
    /\ hashyAbort = FALSE

\* the shard thread t works on
MyShard(t) == byshape[ishape[t]][iidx[t]]

\* Hashy::insert(c, shape): at(shape) finds the Subhashy or aborts, then
\* Subhashy::insert picks the shard by the hash of c
IdxBegin(t, c, s) ==
    /\ ~hashyAbort
    /\ ipc[t] = "idle"
    /\ calls < MaxInserts
    /\ calls' = calls + 1
    /\ IF s \notin DOMAIN byshape
       THEN /\ hashyAbort' = TRUE
            /\ UNCHANGED << ipc, icand, ishape, iidx, inserted, overlap >>
       ELSE /\ ipc' = [ipc EXCEPT ![t] = "lock"]
            /\ icand' = [icand EXCEPT ![t] = c]
            /\ ishape' = [ishape EXCEPT ![t] = s]
            /\ iidx' = [iidx EXCEPT ![t] = ShardOf(c)]
            /\ inserted' = inserted \cup { << s, c >> }
            /\ overlap' = (overlap \/ \E u \in Threads \ {t} :
                                        ipc[u] # "idle" /\ ishape[u] = s /\ icand[u] = c)
            /\ UNCHANGED hashyAbort
    /\ UNCHANGED << byshape, iptr, before, last >>
    /\ UNCHANGED notIndex

\* Subsubhashy::insert: std::lock_guard lock(set_mutex)
IdxLock(t) ==
    /\ ~hashyAbort
    /\ ipc[t] = "lock"
    /\ MutexFree(MyShard(t))
    /\ byshape' = [byshape EXCEPT ![ishape[t]][iidx[t]].set_mutex = {t}]
    /\ before' = [before EXCEPT ![t] =
                    [set |-> MyShard(t).set, seek |-> MyShard(t).m_alloc_seek,
                     dup |-> icand[t] \in ShardMembers(MyShard(t))]]
    /\ ipc' = [ipc EXCEPT ![t] = "allocate"]
    /\ UNCHANGED << icand, ishape, iidx, iptr, last, inserted, calls, overlap, hashyAbort >>
    /\ UNCHANGED notIndex

\* variant of allocate() that leaves the cursor where it is
AllocateStays(seek) == seek

\* m_alloc_seek += m_cube_size * sizeof(XYZ)
AllocateAdvance(seek) == seek + CubeSize * XYZ_SIZE

\* CubePtr CubeStorage::allocate(const Cube& cube): create the file on first use,
\* write the cube at the cursor, remember the cursor, advance it
IdxAllocate(t) ==
    /\ ~hashyAbort
    /\ ipc[t] = "allocate"
    /\ byshape' = [byshape EXCEPT ![ishape[t]][iidx[t]] =
                     [@ EXCEPT !.m_file = TRUE,
                               !.named = (@ \/ ~MyShard(t).m_file),
                               !.data = WriteAt(@, MyShard(t).m_alloc_seek, CubeBytes(icand[t])),
                               !.m_prev_seek = MyShard(t).m_alloc_seek,
                               !.m_alloc_seek = AllocateAdvance(@)]]
    /\ iptr' = [iptr EXCEPT ![t] = MyShard(t).m_alloc_seek]
    /\ ipc' = [ipc EXCEPT ![t] = "emplace"]
    /\ UNCHANGED << icand, ishape, iidx, before, last, inserted, calls, overlap, hashyAbort >>
    /\ UNCHANGED notIndex

\* set.emplace(ptr), the lookup: the key is hashed and compared through read();
\* a node is equal when its record holds the same coordinates
IdxFind(t) ==
    /\ ~hashyAbort
    /\ ipc[t] = "emplace"
    /\ ipc' = [ipc EXCEPT ![t] =
                 IF ShardRead(MyShard(t), iptr[t]) \in ShardMembers(MyShard(t))
                 THEN "cancel" ELSE "link"]
    /\ UNCHANGED << byshape, icand, ishape, iidx, iptr, before, last, inserted, calls,
                    overlap, hashyAbort >>
    /\ UNCHANGED notIndex

\* what an insert leaves behind for the observer: the shard before and after
Outcome(t, sh) ==
    [dup |-> before[t].dup,
     setBefore |-> before[t].set, setAfter |-> sh.set,
     seekBefore |-> before[t].seek, seekAfter |-> sh.m_alloc_seek]

\* set.emplace(ptr), isnew: the node is linked; the lock_guard releases set_mutex
IdxLink(t) ==
    /\ ~hashyAbort
    /\ ipc[t] = "link"
    /\ LET sh == [MyShard(t) EXCEPT !.set = Append(@, iptr[t]), !.set_mutex = {}]
       IN /\ byshape' = [byshape EXCEPT ![ishape[t]][iidx[t]] = sh]
          /\ last' = { Outcome(t, sh) }
    /\ before' = [before EXCEPT ![t] = << >>]
    /\ ipc' = [ipc EXCEPT ![t] = "idle"]
    /\ UNCHANGED << icand, ishape, iidx, iptr, inserted, calls, overlap, hashyAbort >>
    /\ UNCHANGED notIndex

\* !isnew: set_storage.cancel_allocation() with its assert(m_alloc_seek ==
\* m_prev_seek), which ends a build with assertions; the lock_guard releases set_mutex
IdxCancel(t) ==
    /\ ~hashyAbort
    /\ ipc[t] = "cancel"
    /\ LET sh == [MyShard(t) EXCEPT !.m_alloc_seek = CancelSeek(@), !.set_mutex = {}]
       IN /\ byshape' = [byshape EXCEPT ![ishape[t]][iidx[t]] = sh]
          /\ last' = { Outcome(t, sh) }
          /\ \/ hashyAbort' = FALSE
             \/ sh.m_alloc_seek # sh.m_prev_seek /\ hashyAbort' = TRUE
    /\ before' = [before EXCEPT ![t] = << >>]
    /\ ipc' = [ipc EXCEPT ![t] = "idle"]
    /\ UNCHANGED << icand, ishape, iidx, iptr, inserted, calls, overlap >>
    /\ UNCHANGED notIndex

\* Subsubhashy::clear() of shard i of the shape s: std::lock_guard
\* lock(set_mutex); set.clear(); set.reserve(1);
IdxClear(s, i) ==
    /\ ~hashyAbort
    /\ MutexFree(byshape[s][i])
    /\ byshape[s][i].set # << >>
    /\ byshape' = [byshape EXCEPT ![s][i].set = << >>]
    /\ UNCHANGED << ipc, icand, ishape, iidx, iptr, hashyAbort, before, last, inserted,
                    calls, overlap >>
    /\ UNCHANGED notIndex

(***************************************************************************)
(* cacheformat and CacheWriter (newCache.hpp, newCache.cpp).               *)
(***************************************************************************)
\* offset rounded up to a multiple of the alignment a
AlignUp(off, a) == ((off + a - 1) \div a) * a

\* sizeof(cacheformat::Header): three uint32_t, then a uint64_t at its alignment
SizeofHeader == AlignUp(AlignUp(3 * 4, u64align) + 8, u64align)

\* sizeof(cacheformat::ShapeEntry): four uint8_t, then two uint64_t at their alignment
SizeofShapeEntry == AlignUp(AlignUp(4 * 1, u64align) + 2 * 8, u64align)

\* struct_region<T>(file, off)->getEndSeek()
StructEndSeek(off, size) == off + size

\* array_region<T>(file, off, count)->getEndSeek()
ArrayEndSeek(off, count, size) == off + count * size

\* std::sort(keys.begin(), keys.end()) with XYZ::operator<
RECURSIVE SortKeys(_)
SortKeys(S) ==
    IF S = {} THEN << >>
    ELSE LET k == CHOOSE x \in S : \A y \in S : XYZKey(x) <= XYZKey(y)
         IN << k >> \o SortKeys(S \ {k})

\* se.size = count * XYZ_SIZE * n
EntrySize(count, n) == count * XYZ_SIZE * n

\* variant of the advance below that stays in place
SameOffset(off, size) == off

\* offset += se.size
NextOffset(off, size) == off + size

\* every set_mutex of the Subhashy can be taken shared
SubhashyFree(sub) == \A i \in 0..(NUM - 1) : MutexFree(sub[i])

\* the inner loop of save() over the shards of keys[k], from shard i on, with put
\* the destination of the next job: the copy jobs it appends to m_copy
RECURSIVE ScheduleFrom(_, _, _, _)
ScheduleFrom(k, sub, i, put) ==
    IF i >= NUM THEN << >>
    ELSE LET num == SubsubhashySize(sub[i])
         IN (IF num # 0
             THEN << [shape |-> k, idx |-> i, num |-> num, dest |-> put] >>
             ELSE << >>)
            \o ScheduleFrom(k, sub, i + 1, put + num * CubeSize * XYZ_SIZE)

\* put after the inner loop
RECURSIVE PutAfter(_, _, _)
PutAfter(sub, i, put) ==
    IF i >= NUM THEN put
    ELSE PutAfter(sub, i + 1, put + SubsubhashySize(sub[i]) * CubeSize * XYZ_SIZE)

Max(a, b) == IF a >= b THEN a ELSE b

\* file->copyAt(src, 0, num * n * sizeof(XYZ), dest)
CopyAt(file, src, len, dest) == WriteAt(file, dest, ReadAt(src, 0, len))

\* file->truncate(fileEnd)
Truncate(file, len) == ReadAt(file, 0, len)

WriterInit ==
    /\ m_active = TRUE
    /\ m_copy = << >>
    /\ m_num_copys = 0
    /\ m_flushes = << >>
    /\ m_num_flushes = 0
    /\ wpc = [w \in Workers |-> "run"]
    /\ wjob = [w \in Workers |-> << >>]
    /\ spc = "idle"
    /\ header = << >>
    /\ keys = << >>
    /\ shapeEntry = << >>
    /\ offset = 0
    /\ num_cubes = 0
    /\ si = 0
    /\ fileEnd = 0
    /\ cachefile = << >>
    /\ cstate = "none"
    /\ sched = << >>
    /\ lostCopy = FALSE

\* save(): if (hashes.size() == 0) return;
SaveSkip ==
    /\ ~hashyAbort
    /\ spc = "idle"
    /\ \A s \in DOMAIN byshape : SubhashyFree(byshape[s])
    /\ HashySize = 0
    /\ spc' = "returned"
    /\ UNCHANGED << m_active, m_copy, m_num_copys, m_flushes, m_num_flushes, wpc, wjob,
                    header, keys, shapeEntry, offset, num_cubes, si, fileEnd, cachefile,
                    cstate, sched, lostCopy, u64align >>
    /\ UNCHANGED notWriter

\* save(): the file is opened, the header is written from hashes.numShapes() and
\* hashes.size(), the keys are collected and sorted, the shape table is mapped
\* behind the header
SaveHeader ==
    /\ ~hashyAbort
    /\ spc = "idle"
    /\ \A s \in DOMAIN byshape : SubhashyFree(byshape[s])
    /\ HashySize # 0
    /\ cstate' = "open"
    /\ header' = [magic |-> MAGIC, n |-> CubeSize,
                  numShapes |-> Cardinality(DOMAIN byshape), numPolycubes |-> HashySize]
    /\ keys' = SortKeys(DOMAIN byshape)
    /\ offset' = ArrayEndSeek(StructEndSeek(0, SizeofHeader),
                              Cardinality(DOMAIN byshape), SizeofShapeEntry)
    /\ num_cubes' = 0
    /\ si' = 1
    /\ spc' = "table"
    /\ UNCHANGED << m_active, m_copy, m_num_copys, m_flushes, m_num_flushes, wpc, wjob,
                    shapeEntry, fileEnd, cachefile, sched, lostCopy, u64align >>
    /\ UNCHANGED notWriter

\* save(): one turn of the loop that fills the shape table
SaveShapeEntry ==
    /\ ~hashyAbort
    /\ spc = "table"
    /\ SubhashyFree(byshape[keys[si]])
    /\ LET key == keys[si]
           count == SubhashySize(byshape[key])
           size == EntrySize(count, CubeSize)
       IN /\ shapeEntry' = Append(shapeEntry,
                              [dim0 |-> ToByte(key[1]), dim1 |-> ToByte(key[2]),
                               dim2 |-> ToByte(key[3]), reserved |-> 0,
                               offset |-> offset, size |-> size])
          /\ num_cubes' = num_cubes + count
          /\ offset' = NextOffset(offset, size)
    /\ IF si = Len(keys)
       THEN /\ spc' = "schedule"
            /\ si' = 1
            /\ fileEnd' = ArrayEndSeek(StructEndSeek(0, SizeofHeader), Len(keys),
                                       SizeofShapeEntry)
       ELSE /\ si' = si + 1
            /\ UNCHANGED << spc, fileEnd >>
    /\ UNCHANGED << m_active, m_copy, m_num_copys, m_flushes, m_num_flushes, wpc, wjob,
                    header, keys, cachefile, cstate, sched, lostCopy, u64align >>
    /\ UNCHANGED notWriter

\* save(): one turn of the outer loop that schedules the copy jobs of keys[si]
SaveSchedule ==
    /\ ~hashyAbort
    /\ spc = "schedule"
    /\ SubhashyFree(byshape[keys[si]])
    /\ LET sub == byshape[keys[si]]
           jobs == ScheduleFrom(keys[si], sub, 0, shapeEntry[si].offset)
       IN /\ m_copy' = m_copy \o jobs
          /\ m_num_copys' = m_num_copys + Len(jobs)
          /\ fileEnd' = Max(fileEnd, PutAfter(sub, 0, shapeEntry[si].offset))
          /\ sched' = Append(sched,
                        [j \in 1..Len(jobs) |->
                           [num |-> jobs[j].num, dest |-> jobs[j].dest,
                            bytes |-> ReadAt(sub[jobs[j].idx].data, 0,
                                             jobs[j].num * CubeSize * XYZ_SIZE)]])
    /\ IF si = Len(keys)
       THEN /\ spc' = "wait"
            /\ si' = 0
       ELSE /\ si' = si + 1
            /\ UNCHANGED spc
    /\ UNCHANGED << m_active, m_flushes, m_num_flushes, wpc, wjob, header, keys,
                    shapeEntry, offset, num_cubes, cachefile, cstate, lostCopy, u64align >>
    /\ UNCHANGED notWriter

\* save(): past while (m_num_copys > m_flushers.size()) m_wait.wait(lock), the
\* file is moved into a flush job and save() returns
SaveFlush ==
    /\ spc = "wait"
    /\ ~(m_num_copys > NumWorkers)
    /\ m_flushes' = Append(m_flushes, [fileEnd |-> fileEnd])
    /\ m_num_flushes' = m_num_flushes + 1
    /\ spc' = "returned"
    /\ UNCHANGED << m_active, m_copy, m_num_copys, wpc, wjob, header, keys, shapeEntry,
                    offset, num_cubes, si, fileEnd, cachefile, cstate, sched, lostCopy,
                    u64align >>
    /\ UNCHANGED notWriter

\* run(): a copy job is taken from the front of m_copy
RunTakeCopy(w) ==
    /\ wpc[w] = "run"
    /\ m_active
    /\ m_copy # << >>
    /\ wjob' = [wjob EXCEPT ![w] = Head(m_copy)]
    /\ m_copy' = Tail(m_copy)
    /\ wpc' = [wpc EXCEPT ![w] = "copy"]
    /\ UNCHANGED << m_active, m_num_copys, m_flushes, m_num_flushes, spc, header, keys,
                    shapeEntry, offset, num_cubes, si, fileEnd, cachefile, cstate, sched,
                    lostCopy, u64align >>
    /\ UNCHANGED notWriter

\* run(): task() of a copy job, then --m_num_copys. copystorage copies the first
\* num records of the shard's file to dest and removes the file name; a file that
\* a flush job closed meanwhile receives nothing
RunCopy(w) ==
    /\ wpc[w] = "copy"
    /\ LET job == wjob[w]
           src == byshape[job.shape][job.idx]
       IN /\ IF cstate = "open"
             THEN /\ cachefile' = CopyAt(cachefile, src.data,
                                         job.num * CubeSize * XYZ_SIZE, job.dest)
                  /\ UNCHANGED lostCopy
             ELSE /\ lostCopy' = TRUE
                  /\ UNCHANGED cachefile
          /\ byshape' = [byshape EXCEPT ![job.shape][job.idx].named = FALSE]
    /\ m_num_copys' = m_num_copys - 1
    /\ wjob' = [wjob EXCEPT ![w] = << >>]
    /\ wpc' = [wpc EXCEPT ![w] = "run"]
    /\ UNCHANGED << m_active, m_copy, m_flushes, m_num_flushes, spc, header, keys,
                    shapeEntry, offset, num_cubes, si, fileEnd, cstate, sched, u64align >>
    /\ UNCHANGED << storageVars, ipc, icand, ishape, iidx, iptr, hashyAbort,
                    before, last, inserted, calls, overlap, codecVars, hashyVars, readerVars, syncVars,
                    mappedVars, lockVars, iterVars, canonVars, relinkVars, reuseVars >>

\* run(): no copy job is queued and a flush job is taken from the front of m_flushes
RunTakeFlush(w) ==
    /\ wpc[w] = "run"
    /\ m_active
    /\ m_copy = << >>
    /\ m_flushes # << >>
    /\ wjob' = [wjob EXCEPT ![w] = Head(m_flushes)]
    /\ m_flushes' = Tail(m_flushes)
    /\ wpc' = [wpc EXCEPT ![w] = "flush"]
    /\ UNCHANGED << m_active, m_copy, m_num_copys, m_num_flushes, spc, header, keys,
                    shapeEntry, offset, num_cubes, si, fileEnd, cachefile, cstate, sched,
                    lostCopy, u64align >>
    /\ UNCHANGED notWriter

\* run(): task() of a flush job: file->truncate(fileEnd), file->close(); then
\* --m_num_flushes
RunFlush(w) ==
    /\ wpc[w] = "flush"
    /\ cachefile' = Truncate(cachefile, wjob[w].fileEnd)
    /\ cstate' = "closed"
    /\ m_num_flushes' = m_num_flushes - 1
    /\ wjob' = [wjob EXCEPT ![w] = << >>]
    /\ wpc' = [wpc EXCEPT ![w] = "run"]
    /\ UNCHANGED << m_active, m_copy, m_num_copys, m_flushes, spc, header, keys,
                    shapeEntry, offset, num_cubes, si, fileEnd, sched, lostCopy, u64align >>
    /\ UNCHANGED notWriter

(***************************************************************************)
(* CompressedCube: a cube as a walk of direction nibbles with jumps.       *)
(***************************************************************************)
\* static constexpr uint8_t NUM_DIRS
NUM_DIRS == 6

\* static constexpr int8_t dirs[NUM_DIRS][3]; dirs[i] is DIRS[i + 1]
DIRS == << << 0, 0, 1 >>, << 0, 0, -1 >>, << 0, 1, 0 >>, << 0, -1, 0 >>,
           << 1, 0, 0 >>, << -1, 0, 0 >> >>

\* std::array<uint8_t, sizeof(size_t) * 3> enc, with the 8 byte size_t of the hash
ENC_SIZE == 24

\* std::fill(out.enc.begin(), out.enc.end(), 0x88); out.encodedLen() = 0;
\* enc[k] of the code is enc[k + 1] here, and encodedLen() is enc[0]
FreshEnc == [k \in 1..ENC_SIZE |-> IF k = 1 THEN 0 ELSE 136]

\* the locals of encode() the lambda push captures: out.enc, nibbles, nibbleCount
\* and put, which starts at out.enc.data(), the address of enc[0]; overrun tells
\* that put ran past the array
\* (emitted: the instructions pushed so far, an observation)
FreshEncoder ==
    [enc |-> FreshEnc, nibbles |-> 0, nibbleCount |-> 0, put |-> 0, overrun |-> FALSE,
     emitted |-> << >>]

\* push(inst): an even nibble is kept in nibbles; an odd one completes the byte,
\* which is stored through put, and then encodedLen(), that is enc[0], is incremented
push(e, inst) ==
    IF e.nibbleCount % 2 = 1
    THEN LET nib == ((e.nibbles * 16) % 256) + (inst % 16)
             stored == IF e.put < ENC_SIZE THEN [e.enc EXCEPT ![e.put + 1] = nib] ELSE e.enc
         IN  [enc |-> [stored EXCEPT ![1] = (@ + 1) % 256],
              nibbles |-> nib,
              nibbleCount |-> e.nibbleCount + 1,
              put |-> e.put + 1,
              overrun |-> e.overrun \/ e.put >= ENC_SIZE,
              emitted |-> Append(e.emitted, inst % 16)]
    ELSE [e EXCEPT !.nibbles = inst % 16, !.nibbleCount = @ + 1,
                   !.emitted = Append(@, inst % 16)]

\* std::find(begin, end, x): the position of the first x, counted from 1; 0 for end
IndexOf(seq, x) ==
    IF \E k \in 1..Len(seq) : seq[k] = x
    THEN CHOOSE k \in 1..Len(seq) : seq[k] = x /\ \A m \in 1..(k - 1) : seq[m] # x
    ELSE 0

\* std::vector::erase of the element at position k, counted from 1
RemoveAt(seq, k) == [m \in 1..(Len(seq) - 1) |-> IF m < k THEN seq[m] ELSE seq[m + 1]]

Min(S) == CHOOSE x \in S : \A y \in S : x <= y

\* the jump search of encode(), from the candidate at position k (counted from 0)
\* on; jumps lists the values of revidx the search computed. Until a candidate
\* is found every direction is tried; the loop over the
\* candidates does not stop at a find, so that later candidates are tried with
\* direction 0 only (if (found) break leaves the loop over the directions after
\* its first round). The iterator is used after left.erase(jumpcand_it): as a
\* pointer it then stands on the element that followed the erased one, and
\* the increment skips that element.
RECURSIVE JumpScan(_, _)
JumpScan(w, k) ==
    IF k >= Len(w.left) THEN w
    ELSE LET jumpcand == w.left[k + 1]
             tried == IF w.found THEN { 0 } ELSE 0..(NUM_DIRS - 1)
             hits == { i \in tried : IndexOf(w.done, XYZAdd(jumpcand, DIRS[i + 1])) > 0 }
         IN  IF hits = { } THEN JumpScan(w, k + 1)
             ELSE LET i == Min(hits)
                      j == IndexOf(w.done, XYZAdd(jumpcand, DIRS[i + 1])) - 1
                      revidx == Len(w.done) - j - 1
                      e1 == IF revidx >= 8 THEN push(w.e, 8 + ((revidx \div 8) % 8)) ELSE w.e
                      e2 == push(e1, 8 + (revidx % 8))
                      e3 == push(e2, IF i % 2 = 0 THEN i + 1 ELSE i - 1)
                  IN  JumpScan([w EXCEPT !.left = RemoveAt(@, k + 1),
                                         !.done = Append(@, jumpcand),
                                         !.last = jumpcand,
                                         !.e = e3,
                                         !.found = TRUE,
                                         !.jumps = Append(@, revidx),
                                         !.usedInvalid = TRUE], k + 1)

\* the while (left.size() > 0) loop of encode(): a step to a neighbour of last in
\* the first direction that has one, else a jump; a cube that is not connected
\* ends the loop
RECURSIVE EncodeWalk(_)
EncodeWalk(w) ==
    IF Len(w.left) = 0 THEN w
    ELSE LET steps == { i \in 0..(NUM_DIRS - 1) : IndexOf(w.left, XYZAdd(w.last, DIRS[i + 1])) > 0 }
         IN  IF steps # { }
             THEN LET i == Min(steps)
                      next == XYZAdd(w.last, DIRS[i + 1])
                  IN  EncodeWalk([w EXCEPT !.left = RemoveAt(@, IndexOf(@, next)),
                                           !.done = Append(@, next),
                                           !.e = push(@, i),
                                           !.last = next])
             ELSE LET jumped == JumpScan([w EXCEPT !.found = FALSE], 0)
                  IN  IF jumped.found THEN EncodeWalk(jumped)
                      ELSE [jumped EXCEPT !.unconnected = TRUE]

\* CompressedCube::encode(cube): the walk from cube[0], then a dummy jump nibble
\* if the number of nibbles is odd. usedInvalid tells that the walk used an
\* iterator that erase() had invalidated.
encode(cube) ==
    LET w == EncodeWalk([left |-> Tail(cube), done |-> << cube[1] >>, last |-> cube[1],
                         e |-> FreshEncoder, found |-> FALSE, usedInvalid |-> FALSE,
                         unconnected |-> FALSE, jumps |-> << >>])
        e == IF w.e.nibbleCount % 2 = 1 THEN push(w.e, 8) ELSE w.e
    IN  [enc |-> e.enc, usedInvalid |-> w.usedInvalid, overrun |-> e.overrun,
         unconnected |-> w.unconnected, emitted |-> e.emitted, jumps |-> w.jumps]

\* uint32_t jumpoff as two 16 bit limbs << high, low >>; noJump is 0x80000000
noJump == << 32768, 0 >>

\* jumpoff <<= 3; jumpoff |= inst & 0x7 in 32 bits
JumpShift(jumpoff, low3) ==
    << (jumpoff[1] * 8 + (jumpoff[2] * 8) \div Limb) % Limb, ((jumpoff[2] * 8) % Limb) + low3 >>

\* what a read outside an array yields: some coordinate, some byte
GarbageXYZ == { << 0, 0, 0 >>, << 1, 1, 1 >> }

GarbageBytes == { 0, 136 }

\* the loop of decode() from nibble i on. d holds cube (Cube(sizehint), zeroed by
\* new XYZ[N], with start stored first), last, jumpoff and currSize; reads of
\* enc, dirs and cube.data() outside their arrays yield gb and g and set oob, as
\* does a store through put past the cube
RECURSIVE DecodeFrom(_, _, _, _, _, _)
DecodeFrom(en, sizehint, g, gb, i, d) ==
    IF i >= en[1] * 2 THEN d
    ELSE LET inEnc == i \div 2 < ENC_SIZE
             byte == IF inEnc THEN en[(i \div 2) + 1] ELSE gb
             inst == IF i % 2 = 1 THEN byte % 16 ELSE byte \div 16
         IN  IF inst >= 8
             THEN DecodeFrom(en, sizehint, g, gb, i + 1,
                             [d EXCEPT !.jumpoff = JumpShift(@, inst % 8),
                                       !.oob = @ \/ ~inEnc])
             ELSE LET jump == d.jumpoff # noJump
                      inCube == d.jumpoff[1] = 0 /\ d.currSize - 1 - d.jumpoff[2] \in 0..(sizehint - 1)
                      from == IF ~jump THEN d.last
                              ELSE IF inCube THEN d.cube[d.currSize - d.jumpoff[2]]
                              ELSE g
                      inDirs == inst < NUM_DIRS
                      moved == XYZAdd(from, IF inDirs THEN DIRS[inst + 1] ELSE g)
                      inPut == d.currSize < sizehint
                      nd == [cube |-> IF inPut THEN [d.cube EXCEPT ![d.currSize + 1] = moved]
                                      ELSE d.cube,
                             last |-> moved,
                             jumpoff |-> noJump,
                             currSize |-> d.currSize + 1,
                             oob |-> d.oob \/ ~inEnc \/ (jump /\ ~inCube) \/ ~inDirs \/ ~inPut]
                  IN  IF nd.currSize = sizehint THEN nd
                      ELSE DecodeFrom(en, sizehint, g, gb, i + 1, nd)

\* std::sort(cube.begin(), cube.end()) with XYZ::operator<
RECURSIVE SortXYZ(_)
SortXYZ(seq) ==
    IF Len(seq) = 0 THEN << >>
    ELSE LET k == CHOOSE k \in 1..Len(seq) :
                     /\ \A m \in 1..Len(seq) : XYZKey(seq[k]) <= XYZKey(seq[m])
                     /\ \A m \in 1..(k - 1) : XYZKey(seq[m]) # XYZKey(seq[k])
         IN  << seq[k] >> \o SortXYZ(RemoveAt(seq, k))

\* CompressedCube::decode(sizehint, start) on the array en
decode(en, sizehint, start, g, gb) ==
    LET d == DecodeFrom(en, sizehint, g, gb, 0,
                        [cube |-> [k \in 1..sizehint |-> IF k = 1 THEN start ELSE << 0, 0, 0 >>],
                         last |-> start, jumpoff |-> noJump, currSize |-> 1, oob |-> FALSE])
    IN  [cube |-> SortXYZ(d.cube), oob |-> d.oob]

\* the coordinates the cubes of the cache are drawn from
CodecCells == { << x, y, z >> : x \in 0..1, y \in 0..1, z \in 0..2 }

\* the cells of S reachable from R by steps in the six directions
RECURSIVE Reach(_, _)
Reach(R, S) ==
    LET more == { s \in S \ R : \E r \in R, i \in 1..NUM_DIRS : XYZAdd(r, DIRS[i]) = s }
    IN  IF more = { } THEN R ELSE Reach(R \cup more, S)

Connected(cube) ==
    LET S == { cube[k] : k \in 1..Len(cube) }
    IN  Cardinality(S) = Len(cube) /\ Reach({ cube[1] }, S) = S

\* the 6-connected cubes of up to MaxCells cells, in any order of their cells
CodecCubes ==
    UNION { { cube \in [1..n -> CodecCells] : Connected(cube) } : n \in 1..MaxCells }

\* the cubes handed to encode(): up to MaxCells distinct cells in any order,
\* 6-connected or not
EncodeInputs ==
    UNION { { cube \in [1..n -> CodecCells] :
                Cardinality({ cube[k] : k \in 1..n }) = n } : n \in 1..MaxCells }

\* the walk of CompressedCube::encode(cube) when it leaves its loop: done holds
\* the cells it emitted, left the ones it did not, unconnected tells that it
\* printed ERROR unconnected
WalkOf(cube) ==
    EncodeWalk([left |-> Tail(cube), done |-> << cube[1] >>, last |-> cube[1],
                e |-> FreshEncoder, found |-> FALSE, usedInvalid |-> FALSE,
                unconnected |-> FALSE, jumps |-> << >>])

\* the cache tool does not run
CodecOff == ccube = << >> /\ enc = << >> /\ cout = << >> /\ cpc = "off"

\* main(): CacheReader cr(argv[1]), no cube read yet
CodecInit == ccube = << >> /\ enc = << >> /\ cout = << >> /\ cpc = "open"

\* auto enc = CompressedCube::encode(c)
Encode ==
    /\ cpc = "read"
    /\ enc' = encode(ccube).enc
    /\ cpc' = "encoded"
    /\ UNCHANGED << ccube, cout >>
    /\ UNCHANGED notCodec

\* encode() in a build whose iterators are checked: the use of the iterator that
\* erase() invalidated ends the program
EncodeAbort ==
    /\ cpc = "read"
    /\ encode(ccube).usedInvalid
    /\ cpc' = "aborted"
    /\ UNCHANGED << ccube, enc, cout >>
    /\ UNCHANGED notCodec

\* auto cout = enc.decode(c.size(), c.data()[0])
Decode ==
    /\ cpc = "encoded"
    /\ \E g \in GarbageXYZ, gb \in GarbageBytes :
          cout' = decode(enc, Len(ccube), ccube[1], g, gb).cube
    /\ cpc' = "decoded"
    /\ UNCHANGED << ccube, enc >>
    /\ UNCHANGED notCodec

\* decode() reading outside an array where the read faults
DecodeFault ==
    /\ cpc = "encoded"
    /\ \E g \in GarbageXYZ, gb \in GarbageBytes : decode(enc, Len(ccube), ccube[1], g, gb).oob
    /\ cpc' = "faulted"
    /\ UNCHANGED << ccube, enc, cout >>
    /\ UNCHANGED notCodec

\* if (!(c == cout)) { ... return -1; }
Compare ==
    /\ cpc = "decoded"
    /\ cpc' = IF ccube = cout THEN "equal" ELSE "error"
    /\ UNCHANGED << ccube, enc, cout >>
    /\ UNCHANGED notCodec

\* for (auto& cv : cr): the first or the next cube of the cache
NextCube ==
    /\ cpc \in { "open", "equal" }
    /\ ccube' \in CodecCubes
    /\ enc' = << >>
    /\ cout' = << >>
    /\ cpc' = "read"
    /\ UNCHANGED notCodec

\* Workset::recurse: a candidate cube c is handed to encode(c)
NextInput ==
    /\ cpc = "open"
    /\ ccube' \in EncodeInputs
    /\ enc' = << >>
    /\ cout' = << >>
    /\ cpc' = "read"
    /\ UNCHANGED notCodec

\* a straight cube of n cells along z, sorted
StemCube(n) == [i \in 1..n |-> << 0, 0, i - 1 >>]

\* the straight cube with one more cell beside its cell k (counted from 0):
\* encode() walks the n cells and then jumps back n - 1 - k cells
BranchCube(n, k) == Append(StemCube(n), << 0, 1, k >>)

\* long 6-connected cubes, sorted, of up to MaxStem + 1 cells
LongCubes ==
    { StemCube(n) : n \in 1..MaxStem }
        \cup UNION { { BranchCube(n, k) : k \in 0..(n - 1) } : n \in 1..MaxStem }

\* Workset::recurse: a long candidate cube c is handed to encode(c)
NextLong ==
    /\ cpc = "open"
    /\ ccube' \in LongCubes
    /\ enc' = << >>
    /\ cout' = << >>
    /\ cpc' = "read"
    /\ UNCHANGED notCodec

(***************************************************************************)
(* Hashy::generateShapes, init, at and insert, in the two revisions of     *)
(* hashes.hpp: the one with shards on disk, whose at() aborts on a shape   *)
(* it does not find, and the one with shards in memory, whose at()         *)
(* registers it.                                                           *)
(***************************************************************************)
HashesRevs == { "disk", "memory" }

\* if ((x + 1) * (y + 1) * (z + 1) < n) continue;
NeverSkipped(x, y, z, n) == FALSE

NotEnoughSpace(x, y, z, n) == (x + 1) * (y + 1) * (z + 1) < n

\* the shapes clients pass to at() and insert(): any triple of small extents
AtShapes == { << x, y, z >> : x \in 0..1, y \in 0..1, z \in 0..2 }

\* the cubes clients insert
AtCubes == { LineCube(<< 0, 0, 1 >>), LineCube(<< 0, 1, 0 >>) }

\* a Subhashy of this component: for every shard the set of its cubes
NoCubes == [i \in 0..(NUM - 1) |-> { }]

HashyOff ==
    /\ hrev = "disk" /\ hn = 0 /\ gx = 0 /\ gy = 0 /\ gz = 0 /\ gout = << >>
    /\ hpc = "off" /\ hi = 0 /\ hmap = << >> /\ hcalls = 0
    /\ hlast = [shape |-> << >>, known |-> TRUE, map |-> << >>]

\* Hashy hashes; hashes.init(n) is entered: generateShapes(n) starts its loops
HashyStart ==
    /\ hrev \in HashesRevs /\ hn \in 1..MaxN /\ gx = 0 /\ gy = 0 /\ gz = 0 /\ gout = << >>
    /\ hpc = "gen" /\ hi = 0 /\ hmap = << >> /\ hcalls = 0
    /\ hlast = [shape |-> << >>, known |-> TRUE, map |-> << >>]

\* generateShapes: one round of the loop over z
GenBody ==
    /\ hpc = "gen" /\ gx < hn /\ gy < hn - gx /\ gz < hn - gx - gy
    /\ gout' = IF NotEnoughSpace(gx, gy, gz, hn) THEN gout ELSE Append(gout, << gx, gy, gz >>)
    /\ gz' = gz + 1
    /\ UNCHANGED << hrev, hn, gx, gy, hpc, hi, hmap, hcalls, hlast >>
    /\ UNCHANGED notHashy

\* generateShapes: the loop over z ends, ++y, and z starts at y
GenNextY ==
    /\ hpc = "gen" /\ gx < hn /\ gy < hn - gx /\ ~(gz < hn - gx - gy)
    /\ gy' = gy + 1
    /\ gz' = gy + 1
    /\ UNCHANGED << hrev, hn, gx, gout, hpc, hi, hmap, hcalls, hlast >>
    /\ UNCHANGED notHashy

\* generateShapes: the loop over y ends, ++x, and y and z start at x
GenNextX ==
    /\ hpc = "gen" /\ gx < hn /\ ~(gy < hn - gx)
    /\ gx' = gx + 1
    /\ gy' = gx + 1
    /\ gz' = gx + 1
    /\ UNCHANGED << hrev, hn, gout, hpc, hi, hmap, hcalls, hlast >>
    /\ UNCHANGED notHashy

\* generateShapes returns out; init() starts its loop over the shapes
GenReturn ==
    /\ hpc = "gen" /\ ~(gx < hn)
    /\ hpc' = "init"
    /\ hi' = 1
    /\ UNCHANGED << hrev, hn, gx, gy, gz, gout, hmap, hcalls, hlast >>
    /\ UNCHANGED notHashy

\* the map m with the key s added, holding an empty Subhashy
WithShape(m, s) == [k \in (DOMAIN m) \cup { s } |-> IF k \in DOMAIN m THEN m[k] ELSE NoCubes]

\* init(): initSubHashy(n, s), respectively byshape[s].size(), for the next shape
InitShape ==
    /\ hpc = "init" /\ hi <= Len(gout)
    /\ hmap' = IF gout[hi] \in DOMAIN hmap THEN hmap ELSE WithShape(hmap, gout[hi])
    /\ hi' = hi + 1
    /\ UNCHANGED << hrev, hn, gx, gy, gz, gout, hpc, hcalls, hlast >>
    /\ UNCHANGED notHashy

\* init() returns
InitReturn ==
    /\ hpc = "init" /\ hi > Len(gout)
    /\ hpc' = "ready"
    /\ UNCHANGED << hrev, hn, gx, gy, gz, gout, hi, hmap, hcalls, hlast >>
    /\ UNCHANGED notHashy

\* what at(shape) leaves: the map, and whether the program goes on
AtMap(rev, m, shape) ==
    IF shape \in DOMAIN m \/ rev = "disk" THEN m ELSE WithShape(m, shape)

AtAborts(rev, m, shape) == shape \notin DOMAIN m /\ rev = "disk"

\* Hashy::at(shape)
HashyAt(shape) ==
    /\ hpc = "ready" /\ hcalls < MaxInserts
    /\ hcalls' = hcalls + 1
    /\ hlast' = [shape |-> shape, known |-> shape \in DOMAIN hmap, map |-> hmap]
    /\ hmap' = AtMap(hrev, hmap, shape)
    /\ hpc' = IF AtAborts(hrev, hmap, shape) THEN "aborted" ELSE "ready"
    /\ UNCHANGED << hrev, hn, gx, gy, gz, gout, hi >>
    /\ UNCHANGED notHashy

\* Hashy::insert(c, shape): at(shape).insert(c), which adds c to the shard
\* hash(c) % byhash.size() unless the shard holds it
HashyInsert(cube, shape) ==
    /\ hpc = "ready" /\ hcalls < MaxInserts
    /\ hcalls' = hcalls + 1
    /\ hlast' = [shape |-> shape, known |-> shape \in DOMAIN hmap, map |-> hmap]
    /\ IF AtAborts(hrev, hmap, shape)
       THEN hpc' = "aborted" /\ UNCHANGED hmap
       ELSE /\ hmap' = [AtMap(hrev, hmap, shape) EXCEPT ![shape][ShardOf(cube)] = @ \cup { cube }]
            /\ UNCHANGED hpc
    /\ UNCHANGED << hrev, hn, gx, gy, gz, gout, hi >>
    /\ UNCHANGED notHashy

(***************************************************************************)
(* CacheReader: loadFile, unload, getCubesByShape and the accessors.       *)
(***************************************************************************)
\* no file of that name
NoFile == [exists |-> FALSE, magic |-> 0, n |-> 0, numShapes |-> 0, numPolycubes |-> 0,
           sizes |-> << >>]

\* caches as CacheWriter::save leaves them: the table sizes are whole cubes and
\* numPolycubes is their number
RECURSIVE SumSizes(_)
SumSizes(sizes) == IF Len(sizes) = 0 THEN 0 ELSE sizes[1] + SumSizes(Tail(sizes))

GoodFiles ==
    { [exists |-> TRUE, magic |-> MAGIC, n |-> CubeSize, numShapes |-> Len(sizes),
       numPolycubes |-> SumSizes(sizes) \div (XYZ_SIZE * CubeSize), sizes |-> sizes] :
      sizes \in UNION { [1..k -> { 0, XYZ_SIZE * CubeSize }] : k \in 0..MaxShapes } }

\* files that are long enough for a Header and a table but are no cache: the
\* magic differs and the other fields hold whatever the file holds
ForeignFiles ==
    { [exists |-> TRUE, magic |-> 0, n |-> CubeSize, numShapes |-> k, numPolycubes |-> p,
       sizes |-> [j \in 1..k |-> XYZ_SIZE * CubeSize]] : k \in 0..MaxShapes, p \in 0..1 }

ReaderFiles == { NoFile } \cup GoodFiles \cup ForeignFiles

NoRange == [called |-> FALSE, i |-> 0, result |-> "none", size |-> 0, start |-> 0]

\* CacheReader::CacheReader(): no file, header = &dummyHeader, shapes = nullptr
ReaderInit ==
    /\ file_ = NoFile /\ header_ = << >> /\ fileLoaded_ = FALSE
    /\ rheader = "dummy" /\ rshapes = "null" /\ rret = -1 /\ rget = NoRange /\ rpc = "run"

ReaderOff ==
    /\ file_ = NoFile /\ header_ = << >> /\ fileLoaded_ = FALSE
    /\ rheader = "dummy" /\ rshapes = "null" /\ rret = -1 /\ rget = NoRange /\ rpc = "off"

\* header_ after unload(): reset only if (fileLoaded_)
UnloadedRegion == IF fileLoaded_ THEN << >> ELSE header_

\* header after loadFile: &dummyHeader from unload(), unless the file was opened
\* and header = header_->get() ran; the failure on the magic leaves it there
HeaderAfterLoad(f) == IF f.exists THEN "mapped" ELSE "dummy"

\* CacheReader::loadFile(path), f being the file of that name: unload(), open,
\* map the header, compare the magic, map the table and the data
LoadFile(f) ==
    /\ rpc = "run"
    /\ file_' = f
    /\ header_' = IF f.exists THEN f ELSE UnloadedRegion
    /\ rheader' = HeaderAfterLoad(f)
    /\ rshapes' = IF f.exists /\ f.magic = MAGIC THEN "mapped" ELSE "null"
    /\ fileLoaded_' = (f.exists /\ f.magic = MAGIC)
    /\ rret' = IF f.exists /\ f.magic = MAGIC THEN 0 ELSE 1
    /\ rget' = NoRange
    /\ UNCHANGED rpc
    /\ UNCHANGED notReader

\* CacheReader::unload()
Unload ==
    /\ rpc = "run"
    /\ file_' = IF fileLoaded_ THEN NoFile ELSE file_
    /\ header_' = UnloadedRegion
    /\ fileLoaded_' = FALSE
    /\ rheader' = "dummy"
    /\ rshapes' = "null"
    /\ rret' = -1
    /\ rget' = NoRange
    /\ UNCHANGED rpc
    /\ UNCHANGED notReader

\* size() and numShapes(): header->numPolycubes and header->numShapes
ReaderSize == IF rheader = "dummy" THEN 0 ELSE header_.numPolycubes

ReaderNumShapes == IF rheader = "dummy" THEN 0 ELSE header_.numShapes

\* header->n
ReaderN == IF rheader = "dummy" THEN 0 ELSE header_.n

\* getCubesByShape: for (k = 0; k < i; ++k) offset += shapes[k].size
RECURSIVE OffsetBefore(_, _)
OffsetBefore(sizes, i) == IF i = 0 THEN 0 ELSE OffsetBefore(sizes, i - 1) + sizes[i]

\* loadFile: shapes_->getEndSeek(), where xyz_ is mapped
XyzSeek(numShapes) ==
    ArrayEndSeek(StructEndSeek(0, SizeofHeader), numShapes, SizeofShapeEntry)

\* getCubesByShape(i), with the file offset of the range's first XYZ (start is
\* xyz_->get() + index) and the quotient that ShapeRange's constructor computes
\* for size_: std::distance(start, stop) / _cubeLen. With _cubeLen == 0 the
\* division is undefined: it traps or yields some value.
GetCubesByShape(i) ==
    /\ rpc = "run"
    /\ IF i >= ReaderNumShapes
       THEN \/ rget' = [called |-> TRUE, i |-> i, result |-> "empty", size |-> 0, start |-> 0] /\ UNCHANGED rpc
            \/ rget' = [called |-> TRUE, i |-> i, result |-> "fault", size |-> 0, start |-> 0] /\ rpc' = "faulted"
       ELSE IF rshapes = "null"
       THEN rget' = [called |-> TRUE, i |-> i, result |-> "fault", size |-> 0, start |-> 0] /\ rpc' = "faulted"
       ELSE IF header_.sizes[i + 1] <= 0
       THEN rget' = [called |-> TRUE, i |-> i, result |-> "empty", size |-> 0, start |-> 0] /\ UNCHANGED rpc
       ELSE /\ rget' = [called |-> TRUE, i |-> i, result |-> "cubes",
                        size |-> (header_.sizes[i + 1] \div XYZ_SIZE) \div ReaderN,
                        start |-> XyzSeek(header_.numShapes)
                                  + (OffsetBefore(header_.sizes, i) \div XYZ_SIZE) * XYZ_SIZE]
            /\ UNCHANGED rpc
    /\ UNCHANGED << file_, header_, fileLoaded_, rheader, rshapes, rret >>
    /\ UNCHANGED notReader

(***************************************************************************)
(* CacheWriter: the mutex m_mtx and the condition variables m_run and      *)
(* m_wait. Every region of code that runs with m_mtx held, from taking the *)
(* lock to releasing it or waiting, is one action; every notify of the     *)
(* code is issued with m_mtx held. The jobs are numbered and their         *)
(* executions counted; what a job does to the files is RunCopy, RunFlush.  *)
(***************************************************************************)
Flushers == 1..NumFlushers

Jobs == 1..MaxJobs

\* positions of run() from which the thread next takes m_mtx: its start, the
\* lock.lock() behind a task, and the return from m_run.wait
TakesLock == { "start", "copied", "flushed", "woken" }

SyncInit ==
    /\ q_active = TRUE /\ q_copy = << >> /\ q_flushes = << >>
    /\ q_num_copys = 0 /\ q_num_flushes = 0
    /\ qpc = [w \in Flushers |-> "start"] /\ qjob = [w \in Flushers |-> 0]
    /\ fpc = "idle" /\ issued = 0 /\ executed = [j \in Jobs |-> 0]

SyncOff ==
    /\ q_active = TRUE /\ q_copy = << >> /\ q_flushes = << >>
    /\ q_num_copys = 0 /\ q_num_flushes = 0
    /\ qpc = [w \in Flushers |-> "off"] /\ qjob = [w \in Flushers |-> 0]
    /\ fpc = "off" /\ issued = 0 /\ executed = [j \in Jobs |-> 0]

\* a notify_all that wakes no thread
NobodyWoken(pcs) == pcs

\* m_run.notify_all(): every thread blocked in m_run.wait(lock) returns from it
NotifyAllRun(pcs) == [w \in Flushers |-> IF pcs[w] = "wait" THEN "woken" ELSE pcs[w]]

\* m_wait.notify_one(): the caller, if it is blocked in m_wait.wait(lock) of
\* save() or of flush(), returns from it
NobodyNotified(f) == f

NotifyOneWait(f) ==
    IF f = "savewait" THEN "savewoken" ELSE IF f = "flushwait" THEN "flushwoken" ELSE f

\* --m_num_copys, --m_num_flushes behind lock.lock()
CopysBehind(w) == IF qpc[w] = "copied" THEN q_num_copys - 1 ELSE q_num_copys

FlushesBehind(w) == IF qpc[w] = "flushed" THEN q_num_flushes - 1 ELSE q_num_flushes

\* save(): std::unique_lock lock(m_mtx); m_copy.emplace_back(...); ++m_num_copys;
\* m_run.notify_all(); one job is kept back for the flush job of the save()
SyncSchedule ==
    /\ fpc \in { "idle", "sched" }
    /\ issued < MaxJobs - 1
    /\ issued' = issued + 1
    /\ q_copy' = Append(q_copy, issued + 1)
    /\ q_num_copys' = q_num_copys + 1
    /\ qpc' = NotifyAllRun(qpc)
    /\ fpc' = "sched"
    /\ UNCHANGED << q_active, q_flushes, q_num_flushes, qjob, executed >>
    /\ UNCHANGED notSync

\* m_num_copys > m_flushers.size()
BacklogAny(n) == n > 0

BacklogExceeds(n) == n > NumFlushers

\* save(): while (m_num_copys > m_flushers.size()) m_wait.wait(lock);
SyncSaveBlock ==
    /\ fpc \in { "sched", "savewoken" }
    /\ BacklogExceeds(q_num_copys)
    /\ fpc' = "savewait"
    /\ UNCHANGED << q_active, q_copy, q_flushes, q_num_copys, q_num_flushes, qpc, qjob,
                    issued, executed >>
    /\ UNCHANGED notSync

\* save(): past the loop: m_flushes.emplace_back(...); ++m_num_flushes;
\* m_run.notify_all(); and save() returns
SyncSaveReturn ==
    /\ fpc \in { "sched", "savewoken" }
    /\ ~BacklogExceeds(q_num_copys)
    /\ issued' = issued + 1
    /\ q_flushes' = Append(q_flushes, issued + 1)
    /\ q_num_flushes' = q_num_flushes + 1
    /\ qpc' = NotifyAllRun(qpc)
    /\ fpc' = "idle"
    /\ UNCHANGED << q_active, q_copy, q_num_copys, qjob, executed >>
    /\ UNCHANGED notSync

\* ~CacheWriter() is entered
SyncDestroy ==
    /\ fpc = "idle"
    /\ fpc' = "dtor"
    /\ UNCHANGED << q_active, q_copy, q_flushes, q_num_copys, q_num_flushes, qpc, qjob,
                    issued, executed >>
    /\ UNCHANGED notSync

\* flush(): while (m_num_flushes) m_wait.wait(lock);
SyncFlushBlock ==
    /\ fpc \in { "dtor", "flushwoken" }
    /\ q_num_flushes # 0
    /\ fpc' = "flushwait"
    /\ UNCHANGED << q_active, q_copy, q_flushes, q_num_copys, q_num_flushes, qpc, qjob,
                    issued, executed >>
    /\ UNCHANGED notSync

\* flush() returns
SyncFlushReturn ==
    /\ fpc \in { "dtor", "flushwoken" }
    /\ q_num_flushes = 0
    /\ fpc' = "stop"
    /\ UNCHANGED << q_active, q_copy, q_flushes, q_num_copys, q_num_flushes, qpc, qjob,
                    issued, executed >>
    /\ UNCHANGED notSync

\* ~CacheWriter(): m_active = false; m_run.notify_all(); lock.unlock();
SyncStop ==
    /\ fpc = "stop"
    /\ q_active' = FALSE
    /\ qpc' = NotifyAllRun(qpc)
    /\ fpc' = "join"
    /\ UNCHANGED << q_copy, q_flushes, q_num_copys, q_num_flushes, qjob, issued, executed >>
    /\ UNCHANGED notSync

\* ~CacheWriter(): for (auto &thr : m_flushers) thr.join(); and it returns
SyncJoin ==
    /\ fpc = "join"
    /\ \A w \in Flushers : qpc[w] = "exit"
    /\ fpc' = "destroyed"
    /\ UNCHANGED << q_active, q_copy, q_flushes, q_num_copys, q_num_flushes, qpc, qjob,
                    issued, executed >>
    /\ UNCHANGED notSync

\* run(): with the lock, m_active and a job in m_copy: the job is taken
SyncTakeCopy(w) ==
    /\ qpc[w] \in TakesLock
    /\ q_active
    /\ q_copy # << >>
    /\ q_num_copys' = CopysBehind(w)
    /\ q_num_flushes' = FlushesBehind(w)
    /\ qjob' = [qjob EXCEPT ![w] = Head(q_copy)]
    /\ q_copy' = Tail(q_copy)
    /\ qpc' = [qpc EXCEPT ![w] = "copy"]
    /\ UNCHANGED << q_active, q_flushes, fpc, issued, executed >>
    /\ UNCHANGED notSync

\* run(): with the lock, m_active, m_copy empty and a job in m_flushes
SyncTakeFlush(w) ==
    /\ qpc[w] \in TakesLock
    /\ q_active
    /\ q_copy = << >>
    /\ q_flushes # << >>
    /\ q_num_copys' = CopysBehind(w)
    /\ q_num_flushes' = FlushesBehind(w)
    /\ qjob' = [qjob EXCEPT ![w] = Head(q_flushes)]
    /\ q_flushes' = Tail(q_flushes)
    /\ qpc' = [qpc EXCEPT ![w] = "flush"]
    /\ UNCHANGED << q_active, q_copy, fpc, issued, executed >>
    /\ UNCHANGED notSync

\* run(): task() without the lock
SyncTask(w) ==
    /\ qpc[w] \in { "copy", "flush" }
    /\ executed' = [executed EXCEPT ![qjob[w]] = @ + 1]
    /\ qpc' = [qpc EXCEPT ![w] = IF qpc[w] = "copy" THEN "copied" ELSE "flushed"]
    /\ qjob' = [qjob EXCEPT ![w] = 0]
    /\ UNCHANGED << q_active, q_copy, q_flushes, q_num_copys, q_num_flushes, fpc, issued >>
    /\ UNCHANGED notSync

\* run(): with the lock, m_active and both queues empty: m_wait.notify_one();
\* m_run.wait(lock);
SyncIdle(w) ==
    /\ qpc[w] \in TakesLock
    /\ q_active
    /\ q_copy = << >>
    /\ q_flushes = << >>
    /\ q_num_copys' = CopysBehind(w)
    /\ q_num_flushes' = FlushesBehind(w)
    /\ fpc' = NotifyOneWait(fpc)
    /\ qpc' = [qpc EXCEPT ![w] = "wait"]
    /\ UNCHANGED << q_active, q_copy, q_flushes, qjob, issued, executed >>
    /\ UNCHANGED notSync

\* run(): with the lock and m_active false: the loop ends, m_wait.notify_one()
SyncExit(w) ==
    /\ qpc[w] \in TakesLock
    /\ ~q_active
    /\ q_num_copys' = CopysBehind(w)
    /\ q_num_flushes' = FlushesBehind(w)
    /\ fpc' = NotifyOneWait(fpc)
    /\ qpc' = [qpc EXCEPT ![w] = "exit"]
    /\ UNCHANGED << q_active, q_copy, q_flushes, qjob, issued, executed >>
    /\ UNCHANGED notSync

(***************************************************************************)
(* mapped::file and mapped::struct_region<int>, as the tests of the        *)
(* mapped file use them.                                                   *)
(***************************************************************************)
\* the file names of the tests
MappedNames == { "thisfileshouldnotexist", "test_file.bin" }

\* the file name the tests create with openrw
CreatedNames == { "test_file.bin" }

\* the seek offsets a struct_region<int> is placed at
MappedOffs == { 0, SizeofInt }

\* the int values written through a region
MappedVals == 0..MaxValue

\* no file of that name in the directory
Absent == [size |-> -1]

\* no int at that offset is written and not yet flushed
NoVal == -1

\* a file of n bytes, all zero. val is the content, pend the value written
\* through a region and not flushed, want the value last written
ZeroFile(n) ==
    [size |-> n,
     val |-> [o \in MappedOffs |-> 0],
     pend |-> [o \in MappedOffs |-> NoVal],
     want |-> [o \in MappedOffs |-> 0]]

\* std::make_shared<mapped::file>(): no descriptor
ClosedFile == [open |-> FALSE, rw |-> FALSE, path |-> ""]

\* no region constructed
NoView == [live |-> FALSE, off |-> 0, before |-> 0]

\* nothing done yet
NoOp == [op |-> "none", name |-> "", arg |-> 0, existed |-> FALSE]

\* an open that creates whatever the flags are
AlwaysCreates(flags) == TRUE

\* file::open(path) has no CREATE flag; openrw(path, len, flags) creates the
\* file when flags has CREATE
OpenCreates(flags) == "CREATE" \in flags

\* bool file::is_rw() const
is_rw == mfile.open /\ mfile.rw

\* seekoff_t file::size() const
MappedSize == IF mfile.open THEN fsys[mfile.path].size ELSE 0

\* the length a read-write region at off grows a shorter file to: whole pages
\* that cover off + sizeof(int)
Covering(off) == ((off + SizeofInt + PAGE_SIZE - 1) \div PAGE_SIZE) * PAGE_SIZE

\* a region constructor that leaves the length alone
SameSize(size, off) == size

\* the length of the file after a read-write region at off was constructed
GrownSize(size, off) == IF size < off + SizeofInt THEN Covering(off) ELSE size

\* the content of the file after flush() of a region at off
Flushed(f, off) ==
    IF f.pend[off] = NoVal THEN f
    ELSE [f EXCEPT !.val[off] = f.pend[off], !.pend[off] = NoVal]

\* the file cut or extended to n bytes: an int that no longer fits is gone
Truncated(f, n) ==
    [size |-> n,
     val |-> [o \in MappedOffs |-> IF o + SizeofInt <= n THEN f.val[o] ELSE 0],
     pend |-> [o \in MappedOffs |-> IF o + SizeofInt <= n THEN f.pend[o] ELSE NoVal],
     want |-> [o \in MappedOffs |-> IF o + SizeofInt <= n THEN f.want[o] ELSE 0]]

\* the lengths the tests truncate to
TruncLens == { 0, SizeofInt, 2 * SizeofInt }

MappedInit ==
    /\ fsys = [nm \in MappedNames |-> Absent]
    /\ mfile = ClosedFile
    /\ mresult = 0
    /\ mregion = NoView
    /\ mread = NoVal
    /\ mlast = NoOp

\* the mapped file is not part of the run
MappedOff == MappedInit

\* int file::open(const char* fname): read-only, no flags
MappedOpen(nm) ==
    /\ ~mfile.open
    /\ LET flags == {}
           there == fsys[nm] # Absent
       IN /\ IF there \/ OpenCreates(flags)
             THEN /\ mfile' = [open |-> TRUE, rw |-> FALSE, path |-> nm]
                  /\ mresult' = 0
                  /\ fsys' = IF there THEN fsys ELSE [fsys EXCEPT ![nm] = ZeroFile(0)]
             ELSE /\ mresult' = -1
                  /\ UNCHANGED << mfile, fsys >>
          /\ mlast' = [op |-> "open", name |-> nm, arg |-> 0, existed |-> there]
    /\ UNCHANGED << mregion, mread >>
    /\ UNCHANGED notMapped

\* int file::openrw(const char* fname, size_t maxsize, int flags)
MappedOpenRw(nm, len, flags) ==
    /\ ~mfile.open
    /\ LET there == fsys[nm] # Absent
           f == IF there THEN fsys[nm] ELSE ZeroFile(0)
       IN /\ IF there \/ OpenCreates(flags)
             THEN /\ mfile' = [open |-> TRUE, rw |-> TRUE, path |-> nm]
                  /\ mresult' = 0
                  /\ fsys' = [fsys EXCEPT ![nm] =
                                IF "RESIZE" \in flags /\ f.size < len
                                THEN Truncated(f, len) ELSE f]
             ELSE /\ mresult' = -1
                  /\ UNCHANGED << mfile, fsys >>
          /\ mlast' = [op |-> "openrw", name |-> nm, arg |-> len, existed |-> there]
    /\ UNCHANGED << mregion, mread >>
    /\ UNCHANGED notMapped

\* struct_region<int>(file, off): a read-write file is grown to cover the
\* view, a read-only file that is too short gives no view
MappedRegion(off) ==
    /\ mfile.open
    /\ ~mregion.live
    /\ LET f == fsys[mfile.path]
       IN IF mfile.rw
          THEN /\ fsys' = [fsys EXCEPT ![mfile.path] = Truncated(f, GrownSize(f.size, off))]
               /\ mregion' = [live |-> TRUE, off |-> off, before |-> f.size]
               /\ mresult' = 0
          ELSE /\ UNCHANGED fsys
               /\ mregion' = [live |-> f.size >= off + SizeofInt, off |-> off,
                              before |-> f.size]
               /\ mresult' = IF f.size >= off + SizeofInt THEN 0 ELSE -1
    /\ mlast' = [op |-> "region", name |-> mfile.path, arg |-> off, existed |-> TRUE]
    /\ UNCHANGED << mfile, mread >>
    /\ UNCHANGED notMapped

\* (**value) = v through a read-write region
MappedWrite(v) ==
    /\ mregion.live
    /\ mfile.rw
    /\ fsys' = [fsys EXCEPT ![mfile.path].pend[mregion.off] = v,
                            ![mfile.path].want[mregion.off] = v]
    /\ mlast' = [op |-> "write", name |-> mfile.path, arg |-> v, existed |-> TRUE]
    /\ UNCHANGED << mfile, mresult, mregion, mread >>
    /\ UNCHANGED notMapped

\* value->flush()
MappedFlush ==
    /\ mregion.live
    /\ mfile.rw
    /\ fsys' = [fsys EXCEPT ![mfile.path] = Flushed(@, mregion.off)]
    /\ mlast' = [op |-> "flush", name |-> mfile.path, arg |-> mregion.off, existed |-> TRUE]
    /\ UNCHANGED << mfile, mresult, mregion, mread >>
    /\ UNCHANGED notMapped

\* **value through a region: the content, or a value that was written and
\* never flushed
MappedGet ==
    /\ mregion.live
    /\ LET f == fsys[mfile.path]
       IN mread' \in { f.val[mregion.off] } \cup ({ f.pend[mregion.off] } \ { NoVal })
    /\ mlast' = [op |-> "get", name |-> mfile.path, arg |-> mregion.off, existed |-> TRUE]
    /\ UNCHANGED << fsys, mfile, mresult, mregion >>
    /\ UNCHANGED notMapped

\* value.reset(): the region is destroyed
MappedReset ==
    /\ mregion.live
    /\ mregion' = NoView
    /\ mlast' = [op |-> "reset", name |-> mfile.path, arg |-> 0, existed |-> TRUE]
    /\ UNCHANGED << fsys, mfile, mresult, mread >>
    /\ UNCHANGED notMapped

\* file->truncate(n), with no region mapped
MappedTruncate(n) ==
    /\ mfile.open
    /\ mfile.rw
    /\ ~mregion.live
    /\ fsys' = [fsys EXCEPT ![mfile.path] = Truncated(@, n)]
    /\ mlast' = [op |-> "truncate", name |-> mfile.path, arg |-> n, existed |-> TRUE]
    /\ UNCHANGED << mfile, mresult, mregion, mread >>
    /\ UNCHANGED notMapped

\* the last std::shared_ptr<mapped::file> goes away at the end of a test
MappedClose ==
    /\ mfile.open
    /\ ~mregion.live
    /\ mfile' = ClosedFile
    /\ mlast' = [op |-> "close", name |-> mfile.path, arg |-> 0, existed |-> TRUE]
    /\ UNCHANGED << fsys, mresult, mregion, mread >>
    /\ UNCHANGED notMapped

(***************************************************************************)
(* Hashy::set_mutex: init, initSubHashy, at, size and numShapes called by  *)
(* several threads, in the two revisions of hashes.hpp.                    *)
(***************************************************************************)
\* the shapes init(CubeSize) walks through, in the order of generateShapes
InitShapes == generateShapes(CubeSize)

\* the Hashy as constructed: empty map, free set_mutex, every thread outside
LockInit ==
    /\ kmap = {}
    /\ kshared = {}
    /\ kexcl = 0
    /\ kmod = {}
    /\ kpc = [t \in Threads |-> "idle"]
    /\ kshape = [t \in Threads |-> << >>]
    /\ kidx = [t \in Threads |-> 0]
    /\ knum = [t \in Threads |-> 0]

\* no thread calls the Hashy
LockOff == LockInit /\ krev = "off"

\* std::shared_lock lock(set_mutex) can be acquired
SharedFree == kexcl = 0

\* std::lock_guard lock(set_mutex) can be acquired
ExclusiveFree == kexcl = 0 /\ kshared = {}

\* std::abort() was called
Aborted == \E t \in Threads : kpc[t] = "aborted"

\* init(n) is called. The revision with in-memory shards goes for
\* std::lock_guard lock(set_mutex) first, the revision with shards on disk
\* enters its loop at once
LockInitCall(t) ==
    /\ ~Aborted
    /\ kpc[t] = "idle"
    /\ kpc' = [kpc EXCEPT ![t] = IF krev = "memory" THEN "initlock" ELSE "init"]
    /\ kidx' = [kidx EXCEPT ![t] = 1]
    /\ UNCHANGED << krev, kmap, kshared, kexcl, kmod, kshape, knum >>
    /\ UNCHANGED notLock

\* init(n) of the in-memory revision: std::lock_guard lock(set_mutex)
LockInitLock(t) ==
    /\ ~Aborted
    /\ kpc[t] = "initlock"
    /\ ExclusiveFree
    /\ kexcl' = t
    /\ kpc' = [kpc EXCEPT ![t] = "init"]
    /\ UNCHANGED << krev, kmap, kshared, kmod, kshape, kidx, knum >>
    /\ UNCHANGED notLock

\* the loop of init(n): byshape.find(s) in initSubHashy, or the lookup of
\* byshape[s]; a shape that is missing is about to be added
LockInitFind(t) ==
    /\ ~Aborted
    /\ kpc[t] = "init"
    /\ kidx[t] <= Len(InitShapes)
    /\ IF InitShapes[kidx[t]] \in kmap
       THEN /\ kidx' = [kidx EXCEPT ![t] = @ + 1]
            /\ UNCHANGED << kmod, kpc, kshape >>
       ELSE /\ kmod' = kmod \cup { t }
            /\ kshape' = [kshape EXCEPT ![t] = InitShapes[kidx[t]]]
            /\ kpc' = [kpc EXCEPT ![t] = "emplace"]
            /\ UNCHANGED kidx
    /\ UNCHANGED << krev, kmap, kshared, kexcl, knum >>
    /\ UNCHANGED notLock

\* byshape.emplace(s, Subhashy(32, n, base_path)), or byshape[s] creating the
\* entry, has linked the new node
LockInitEmplace(t) ==
    /\ ~Aborted
    /\ kpc[t] = "emplace"
    /\ kmap' = kmap \cup { kshape[t] }
    /\ kmod' = kmod \ { t }
    /\ kidx' = [kidx EXCEPT ![t] = @ + 1]
    /\ kpc' = [kpc EXCEPT ![t] = "init"]
    /\ UNCHANGED << krev, kshared, kexcl, kshape, knum >>
    /\ UNCHANGED notLock

\* init(n) returns; the lock_guard of the in-memory revision is released
LockInitReturn(t) ==
    /\ ~Aborted
    /\ kpc[t] = "init"
    /\ kidx[t] > Len(InitShapes)
    /\ kexcl' = IF kexcl = t THEN 0 ELSE kexcl
    /\ kpc' = [kpc EXCEPT ![t] = "idle"]
    /\ kidx' = [kidx EXCEPT ![t] = 0]
    /\ UNCHANGED << krev, kmap, kshared, kmod, kshape, knum >>
    /\ UNCHANGED notLock

\* at(shape): std::shared_lock lock(set_mutex)
LockAt(t, shape) ==
    /\ ~Aborted
    /\ kpc[t] = "idle"
    /\ SharedFree
    /\ kshared' = kshared \cup { t }
    /\ kshape' = [kshape EXCEPT ![t] = shape]
    /\ kpc' = [kpc EXCEPT ![t] = "at"]
    /\ UNCHANGED << krev, kmap, kexcl, kmod, kidx, knum >>
    /\ UNCHANGED notLock

\* at(shape): byshape.find(shape). A shape that is found is returned; for one
\* that is missing the revision on disk aborts and the in-memory revision
\* does lock.unlock()
LockAtFind(t) ==
    /\ ~Aborted
    /\ kpc[t] = "at"
    /\ IF kshape[t] \in kmap
       THEN /\ kshared' = kshared \ { t }
            /\ kpc' = [kpc EXCEPT ![t] = "idle"]
       ELSE IF krev = "disk"
            THEN /\ kpc' = [kpc EXCEPT ![t] = "aborted"]
                 /\ UNCHANGED kshared
            ELSE /\ kshared' = kshared \ { t }
                 /\ kpc' = [kpc EXCEPT ![t] = "atlock"]
    /\ UNCHANGED << krev, kmap, kexcl, kmod, kshape, kidx, knum >>
    /\ UNCHANGED notLock

\* at(shape) of the in-memory revision: std::lock_guard elock(set_mutex), then
\* byshape[shape], which adds the shape unless another thread did meanwhile
LockAtExclusive(t) ==
    /\ ~Aborted
    /\ kpc[t] = "atlock"
    /\ ExclusiveFree
    /\ kexcl' = t
    /\ kmod' = IF kshape[t] \in kmap THEN kmod ELSE kmod \cup { t }
    /\ kpc' = [kpc EXCEPT ![t] = "atcreate"]
    /\ UNCHANGED << krev, kmap, kshared, kshape, kidx, knum >>
    /\ UNCHANGED notLock

\* at(shape) of the in-memory revision returns byshape[shape]; elock is released
LockAtCreated(t) ==
    /\ ~Aborted
    /\ kpc[t] = "atcreate"
    /\ kmap' = kmap \cup { kshape[t] }
    /\ kmod' = kmod \ { t }
    /\ kexcl' = 0
    /\ kpc' = [kpc EXCEPT ![t] = "idle"]
    /\ UNCHANGED << krev, kshared, kshape, kidx, knum >>
    /\ UNCHANGED notLock

\* size() or numShapes(): std::shared_lock lock(set_mutex)
LockSize(t) ==
    /\ ~Aborted
    /\ kpc[t] = "idle"
    /\ SharedFree
    /\ kshared' = kshared \cup { t }
    /\ kpc' = [kpc EXCEPT ![t] = "size"]
    /\ UNCHANGED << krev, kmap, kexcl, kmod, kshape, kidx, knum >>
    /\ UNCHANGED notLock

\* numShapes() (size() alike) has read the map and returns byshape.size()
LockSizeReturn(t) ==
    /\ ~Aborted
    /\ kpc[t] = "size"
    /\ knum' = [knum EXCEPT ![t] = Cardinality(kmap)]
    /\ kshared' = kshared \ { t }
    /\ kpc' = [kpc EXCEPT ![t] = "idle"]
    /\ UNCHANGED << krev, kmap, kexcl, kmod, kshape, kidx >>
    /\ UNCHANGED notLock

(***************************************************************************)
(* CubeIterator / CubeReadIterator behind CacheIterator, and the ranges    *)
(* ShapeRange / FileShapeRange that hand them out. A position is what      *)
(* seek() returns: the address m_ptr holds, or the file offset m_seek.     *)
(***************************************************************************)
\* the flavours: ShapeRange over mapped memory, FileShapeRange over a file
RangeKinds == { "memory", "file" }

\* where a range starts: the address of xyz_->get() + index, or the offset of
\* the shape's payload in the file
RangeStarts == { 0, 72 }

\* the numbers of cubes in a range
RangeCubes == 0..MaxRangeCubes

\* variant of the step that takes the cube length for the record length
OneXYZ(n) == n

\* the step of operator++ in the unit of seek(): m_ptr += n moves the address by
\* n * sizeof(XYZ), m_seek += n * sizeof(XYZ)
RecordStep(n) == n * XYZ_SIZE

\* ICubeIterator& operator+=(int incr): m_ptr += n * incr and
\* m_seek += n * incr * sizeof(XYZ); n * incr is a uint32_t product, which the
\* ranges of at most MaxRangeCubes cubes do not overflow
AddStep(n, incr) == (n * incr) * XYZ_SIZE

\* size_ of ShapeRange: std::distance(start, stop) / _cubeLen, the distance of
\* two const XYZ* counting XYZ elements
ShapeRangeSize(start, stop, n) == ((stop - start) \div XYZ_SIZE) \div n

\* size_ of FileShapeRange: (stop - start) / _cubeLen, start and stop being file
\* offsets
FileShapeRangeSize(start, stop, n) == (stop - start) \div n

RangeSize(kind, start, stop, n) ==
    IF kind = "memory" THEN ShapeRangeSize(start, stop, n)
    ELSE FileShapeRangeSize(start, stop, n)

\* a range of k cubes of length n is constructed and begin() is copied
IterInit ==
    /\ itkind \in RangeKinds
    /\ itn \in 1..CubeSize
    /\ itbegin \in RangeStarts
    /\ \E k \in RangeCubes :
         /\ itend = itbegin + k * itn * XYZ_SIZE
         /\ itsize = RangeSize(itkind, itbegin, itend, itn)
    /\ itpos = itbegin
    /\ itcount = 0
    /\ clpos = -1
    /\ clcount = 0

\* no range is in use
IterOff ==
    /\ itkind = "off" /\ itn = 0 /\ itbegin = 0 /\ itend = 0 /\ itsize = 0
    /\ itpos = 0 /\ itcount = 0 /\ clpos = -1 /\ clcount = 0

\* ++it on an iterator that has not reached end()
IterIncrement ==
    /\ itkind \in RangeKinds
    /\ itpos # itend
    /\ itpos' = itpos + RecordStep(itn)
    /\ itcount' = itcount + 1
    /\ UNCHANGED << itkind, itn, itbegin, itend, itsize, clpos, clcount >>
    /\ UNCHANGED notIter

\* clone() of the iterator, or a copy of the CacheIterator that holds it
IterClone ==
    /\ itkind \in RangeKinds
    /\ clpos' = itpos
    /\ clcount' = itcount
    /\ UNCHANGED << itkind, itn, itbegin, itend, itsize, itpos, itcount >>
    /\ UNCHANGED notIter

\* ++ on the clone
CloneIncrement ==
    /\ itkind \in RangeKinds
    /\ clpos # -1
    /\ clcount < 2 * MaxRangeCubes
    /\ clpos' = clpos + RecordStep(itn)
    /\ clcount' = clcount + 1
    /\ UNCHANGED << itkind, itn, itbegin, itend, itsize, itpos, itcount >>
    /\ UNCHANGED notIter

\* clone += k
CloneAdd(k) ==
    /\ itkind \in RangeKinds
    /\ clpos # -1
    /\ clcount + k <= 2 * MaxRangeCubes
    /\ clpos' = clpos + AddStep(itn, k)
    /\ clcount' = clcount + k
    /\ UNCHANGED << itkind, itn, itbegin, itend, itsize, itpos, itcount >>
    /\ UNCHANGED notIter

(***************************************************************************)
(* The canonical rotation: expand() of the hash set driver and the leaf of *)
(* Workset::recurse of the counting driver.                                *)
(***************************************************************************)
\* Rotations::LUT: the 24 rotations, each the source axis of every target axis
\* and the sign it is taken with
RotationLUT ==
    <<
       << << 1, 2, 3 >>, << 1, 1, 1 >> >>,
       << << 1, 2, 3 >>, << 1, -1, -1 >> >>,
       << << 1, 2, 3 >>, << -1, 1, -1 >> >>,
       << << 1, 2, 3 >>, << -1, -1, 1 >> >>,
       << << 1, 3, 2 >>, << 1, 1, -1 >> >>,
       << << 1, 3, 2 >>, << 1, -1, 1 >> >>,
       << << 1, 3, 2 >>, << -1, 1, 1 >> >>,
       << << 1, 3, 2 >>, << -1, -1, -1 >> >>,
       << << 2, 1, 3 >>, << 1, 1, -1 >> >>,
       << << 2, 1, 3 >>, << 1, -1, 1 >> >>,
       << << 2, 1, 3 >>, << -1, 1, 1 >> >>,
       << << 2, 1, 3 >>, << -1, -1, -1 >> >>,
       << << 2, 3, 1 >>, << 1, 1, 1 >> >>,
       << << 2, 3, 1 >>, << 1, -1, -1 >> >>,
       << << 2, 3, 1 >>, << -1, 1, -1 >> >>,
       << << 2, 3, 1 >>, << -1, -1, 1 >> >>,
       << << 3, 1, 2 >>, << 1, 1, 1 >> >>,
       << << 3, 1, 2 >>, << 1, -1, -1 >> >>,
       << << 3, 1, 2 >>, << -1, 1, -1 >> >>,
       << << 3, 1, 2 >>, << -1, -1, 1 >> >>,
       << << 3, 2, 1 >>, << 1, 1, -1 >> >>,
       << << 3, 2, 1 >>, << 1, -1, 1 >> >>,
       << << 3, 2, 1 >>, << -1, 1, 1 >> >>,
       << << 3, 2, 1 >>, << -1, -1, -1 >> >>
    >>

NUM_ROTATIONS == 24

\* Rotations::rotate(i, shape, orig): the shape and the cells of the rotated cube,
\* no cells when the rotated shape is not in ascending order
rotate(i, shape, orig) ==
    LET rot == RotationLUT[i + 1]
        out_shape == << shape[rot[1][1]], shape[rot[1][2]], shape[rot[1][3]] >>
        turn(p, j) == IF rot[2][j] < 0 THEN shape[rot[1][j]] - p[rot[1][j]]
                                         ELSE p[rot[1][j]]
    IN  IF out_shape[1] > out_shape[2] \/ out_shape[2] > out_shape[3]
        THEN [shape |-> out_shape, cube |-> << >>]
        ELSE [shape |-> out_shape,
              cube |-> [k \in 1..Len(orig) |->
                            << turn(orig[k], 1), turn(orig[k], 2), turn(orig[k], 3) >>]]

\* Cube::operator<
CubeLess(a, b) ==
    IF Len(a) # Len(b) THEN Len(a) < Len(b)
    ELSE \E k \in 1..Len(a) :
            /\ \A m \in 1..(k - 1) : XYZKey(a[m]) = XYZKey(b[m])
            /\ XYZKey(a[k]) < XYZKey(b[k])

\* expand(): the neighbours of the cells of c that are not cells of c
ExpandCandidates(c) ==
    { XYZAdd(c[k], DIRS[i]) : k \in 1..Len(c), i \in 1..NUM_DIRS }
        \ { c[k] : k \in 1..Len(c) }

\* expand(): the candidate p and the cells of c, moved by one where p is negative
NewCubeOf(c, p) ==
    LET a == << IF p[1] < 0 THEN 1 ELSE 0, IF p[2] < 0 THEN 1 ELSE 0,
                IF p[3] < 0 THEN 1 ELSE 0 >>
    IN  << XYZAdd(p, a) >> \o [k \in 1..Len(c) |-> XYZAdd(c[k], a)]

\* expand(): the largest coordinate of newCube in every axis
ShapeOf(cube) ==
    LET top(j) == CHOOSE v \in { cube[k][j] : k \in 1..Len(cube) } :
                     \A k \in 1..Len(cube) : cube[k][j] <= v
    IN  << top(1), top(2), top(3) >>

\* the cubes of n cells that expand() makes out of the one cell cube
RECURSIVE GrowCubes(_)
GrowCubes(n) ==
    IF n = 1 THEN { << << 0, 0, 0 >> >> }
    ELSE UNION { { SortXYZ(NewCubeOf(c, p)) : p \in ExpandCandidates(c) } :
                 c \in GrowCubes(n - 1) }

\* the cubes expand() is called with
BaseCubes == UNION { GrowCubes(n) : n \in 1..(MaxCells - 1) }

\* expand(): the loop over the rotations, from rotation i on
RECURSIVE ExpandScan(_, _, _, _, _, _)
ExpandScan(i, shape, cube, lowest, lowestShape, none_set) ==
    IF i = NUM_ROTATIONS THEN [cube |-> lowest, shape |-> lowestShape]
    ELSE LET res == rotate(i, shape, cube)
             rotatedCube == SortXYZ(res.cube)
         IN  IF Len(res.cube) = 0
             THEN ExpandScan(i + 1, shape, cube, lowest, lowestShape, none_set)
             ELSE IF none_set \/ CubeLess(lowest, rotatedCube)
                  THEN ExpandScan(i + 1, shape, cube, rotatedCube, res.shape, FALSE)
                  ELSE ExpandScan(i + 1, shape, cube, lowest, lowestShape, none_set)

\* Workset::recurse: the faces of the shape that the cells of c touch, one bit each
BoundsOf(shape, c) ==
    UNION { (IF c[k][1] = shape[1] THEN { 0 } ELSE { }) \cup
            (IF c[k][1] = 0 THEN { 1 } ELSE { }) \cup
            (IF c[k][2] = shape[2] THEN { 2 } ELSE { }) \cup
            (IF c[k][2] = 0 THEN { 3 } ELSE { }) \cup
            (IF c[k][3] = shape[3] THEN { 4 } ELSE { }) \cup
            (IF c[k][3] = 0 THEN { 5 } ELSE { }) : k \in 1..Len(c) }

\* Workset::recurse at step == n: what it returns for the cube c, whose cells are
\* in the order of their ids
RecurseLeaf(shape, c) ==
    IF BoundsOf(shape, c) # 0..5 THEN 0
    ELSE IF \E i \in 0..(NUM_ROTATIONS - 1) :
                /\ Len(rotate(i, shape, c).cube) # 0
                /\ CubeLess(SortXYZ(rotate(i, shape, c).cube), c)
         THEN 0
         ELSE IF ~encode(c).unconnected THEN 1 ELSE 0

\* the drivers do not run
CanonOff ==
    /\ xc = << >> /\ newCube = << >> /\ lowestHashCube = << >> /\ xhashes = { }
    /\ recnum = -1 /\ xpc = "off"

CanonInit ==
    /\ xc = << >> /\ newCube = << >> /\ lowestHashCube = << >> /\ xhashes = { }
    /\ recnum = -1 /\ xpc = "open"

\* expand(c, hashes) is called
Expand(c) ==
    /\ xpc = "open"
    /\ xc' = c
    /\ xpc' = "candidates"
    /\ UNCHANGED << newCube, lowestHashCube, xhashes, recnum >>
    /\ UNCHANGED notCanon

\* expand(): the candidate p and the cells of c become newCube
Candidate(p) ==
    /\ xpc = "candidates"
    /\ newCube' = NewCubeOf(xc, p)
    /\ xpc' = "candidate"
    /\ UNCHANGED << xc, lowestHashCube, xhashes, recnum >>
    /\ UNCHANGED notCanon

\* expand(): the rotations of newCube, and the one handed to hashes.insert
Rotate ==
    /\ xpc = "candidate"
    /\ lowestHashCube' =
           ExpandScan(0, ShapeOf(newCube), newCube, << >>, << 0, 0, 0 >>, TRUE).cube
    /\ xhashes' = xhashes \cup { lowestHashCube' }
    /\ xpc' = "inserted"
    /\ UNCHANGED << xc, newCube, recnum >>
    /\ UNCHANGED notCanon

\* Workset::recurse reaches step == n with the cells of newCube, for the Workset
\* of their shape, which is one of Hashy::generateShapes
Recurse ==
    /\ xpc = "inserted"
    /\ ShapeOf(newCube)[1] <= ShapeOf(newCube)[2]
    /\ ShapeOf(newCube)[2] <= ShapeOf(newCube)[3]
    /\ recnum' = RecurseLeaf(ShapeOf(newCube), SortXYZ(newCube))
    /\ xpc' = "counted"
    /\ UNCHANGED << xc, newCube, lowestHashCube, xhashes >>
    /\ UNCHANGED notCanon

\* the next candidate of expand()
NextCandidate ==
    /\ xpc \in { "inserted", "counted" }
    /\ newCube' = << >>
    /\ lowestHashCube' = << >>
    /\ recnum' = -1
    /\ xpc' = "candidates"
    /\ UNCHANGED << xc, xhashes >>
    /\ UNCHANGED notCanon


(***************************************************************************)
(* One shard's CubeStorage between save() and the copy job of its file.    *)
(***************************************************************************)
StorageFiles == 1..MaxFiles

NoJob == [state |-> "none", src |-> 0, num |-> 0]

\* the flags commit() opens m_fpath with
CommitFlags == { "CREATE", "RESIZE", "FSTUNE" }

RelinkOff ==
    /\ lnamed = 0 /\ ldata = [f \in StorageFiles |-> << >>] /\ lmade = 0
    /\ lfile = 0 /\ lseek = 0 /\ lsize = 0 /\ ljob = NoJob /\ lout = << >>
    /\ lheld = << >> /\ lreopened = FALSE /\ lpc = "off"

RelinkInit ==
    /\ lnamed = 0 /\ ldata = [f \in StorageFiles |-> << >>] /\ lmade = 0
    /\ lfile = 0 /\ lseek = 0 /\ lsize = 0 /\ ljob = NoJob /\ lout = << >>
    /\ lheld = << >> /\ lreopened = FALSE /\ lpc = "run"

\* variant of openrw() that always makes a new file of the name
OpensAnew(named) == 0

\* m_file->openrw(m_fpath.c_str(), 0, CREATE | RESIZE | FSTUNE): the file the
\* name stands for is opened, and created only when there is none (0)
OpensNamed(named) == named

\* Subsubhashy::insert of a cube that is not in the set: commit() opens m_fpath
\* if m_file is null, writes the record at the cursor and advances the cursor
RelinkCommit(c) ==
    /\ lpc = "run"
    /\ lseek < MaxRecords * RecordSize
    /\ IF lfile # 0
       THEN /\ ldata' = [ldata EXCEPT ![lfile] = WriteAt(@, lseek, CubeBytes(c))]
            /\ UNCHANGED << lfile, lnamed, lmade, lreopened >>
       ELSE IF OpensNamed(lnamed) # 0
       THEN /\ lfile' = OpensNamed(lnamed)
            /\ ldata' = [ldata EXCEPT ![OpensNamed(lnamed)] =
                           WriteAt(@, lseek, CubeBytes(c))]
            /\ lreopened' = (lreopened \/ ljob.state = "queued")
            /\ UNCHANGED << lnamed, lmade >>
       ELSE /\ OpenCreates(CommitFlags)
            /\ lmade < MaxFiles
            /\ lmade' = lmade + 1
            /\ lfile' = lmade + 1
            /\ lnamed' = lmade + 1
            /\ ldata' = [ldata EXCEPT ![lmade + 1] = WriteAt(<< >>, lseek, CubeBytes(c))]
            /\ lreopened' = (lreopened \/ ljob.state = "queued")
    /\ lseek' = CommitAdvance(lseek)
    /\ lsize' = lsize + 1
    /\ UNCHANGED << ljob, lout, lheld, lpc >>
    /\ UNCHANGED notRelink

\* the shard is cleared and its storage discarded: m_file.reset(), m_alloc_seek
\* = 0; the file stays in the directory
RelinkDiscard ==
    /\ lpc = "run"
    /\ lsize' = 0
    /\ IF lfile # 0
       THEN lfile' = 0 /\ lseek' = DiscardSeek(lseek)
       ELSE UNCHANGED << lfile, lseek >>
    /\ UNCHANGED << lnamed, ldata, lmade, ljob, lout, lheld, lreopened, lpc >>
    /\ UNCHANGED notRelink

\* save(): num = subset.size(); if (num) the copy job is bound to
\* subset.storage().getFile(), fileName() and num
RelinkSchedule ==
    /\ lpc = "run"
    /\ ljob.state = "none"
    /\ lsize # 0
    /\ ljob' = [state |-> "queued", src |-> lfile, num |-> lsize]
    /\ lheld' = ReadAt(ldata[lfile], 0, lsize * RecordSize)
    /\ UNCHANGED << lnamed, ldata, lmade, lfile, lseek, lsize, lout, lreopened, lpc >>
    /\ UNCHANGED notRelink

\* copystorage: file->copyAt(src, 0, num * n * sizeof(XYZ), dest); src.reset();
\* then the name rmname is removed if it names a regular file
RelinkCopy ==
    /\ lpc = "run"
    /\ ljob.state = "queued"
    /\ lout' = ReadAt(ldata[ljob.src], 0, ljob.num * RecordSize)
    /\ lnamed' = 0
    /\ ljob' = [ljob EXCEPT !.state = "done"]
    /\ UNCHANGED << ldata, lmade, lfile, lseek, lsize, lheld, lreopened, lpc >>
    /\ UNCHANGED notRelink


(***************************************************************************)
(* A CubeStorage is destroyed and another one constructed.                 *)
(***************************************************************************)
\* the addresses a CubeStorage can be constructed at
Addrs == 1..NumAddrs

\* the one storage of the other specifications
ReuseOff == saddr = 1 /\ sgen = 1

\* variant of the constructor that takes the version over from the storage
\* that was destroyed
VersionKept(v) == v + 1

\* int m_storage_version = 0 of a new CubeStorage
FreshVersion(v) == 0

\* ~CubeStorage() calls discard(); then CubeStorage(path, n) constructs another
\* storage at the address a, which can be the address of the destroyed one:
\* a new file name, no file, the cursor 0 and the version 0. The thread-local
\* read caches and slots are not part of the storage and stay as they are.
Reconstruct(a) ==
    /\ ~aborted
    /\ \A u \in Threads : pc[u] = "idle"
    /\ set_mutex = {}
    /\ sgen < MaxStorages
    /\ sgen' = sgen + 1
    /\ saddr' = a
    /\ m_file' = FALSE
    /\ disk' = << >>
    /\ m_alloc_seek' = 0
    /\ m_storage_version' = FreshVersion(m_storage_version)
    /\ set' = << >>
    /\ prev' = pub
    /\ pub' = << >>
    /\ rd' = {}
    /\ UNCHANGED << tc, set_mutex, pc, cand, ptr, hcode, todo, viaLock, aborted, assertFailed >>
    /\ UNCHANGED << indexVars, writerVars, codecVars, hashyVars, readerVars, syncVars,
                    mappedVars, lockVars, iterVars, canonVars, relinkVars >>

(***************************************************************************)
(* Specifications.                                                         *)
(***************************************************************************)
\* the builds the layout of the cache file is modelled for
U64Aligns == { 4, 8 }

Init == StorageInit /\ IndexInit /\ WriterInit /\ u64align = 8 /\ CodecOff /\ HashyOff /\ ReaderOff /\ SyncOff /\ MappedOff /\ LockOff /\ IterOff /\ CanonOff /\ RelinkOff /\ ReuseOff

\* as Init, in any of the builds
InitWriter == StorageInit /\ IndexInit /\ WriterInit /\ u64align \in U64Aligns /\ CodecOff /\ HashyOff /\ ReaderOff /\ SyncOff /\ MappedOff /\ LockOff /\ IterOff /\ CanonOff /\ RelinkOff /\ ReuseOff

Next == \/ \E t \in Threads, c \in Cubes : InsertLocked(t, c)
        \/ \E t \in Threads, i \in 1..MaxRecords : Probe(t, i)
        \/ \E t \in Threads : Commit(t)
        \/ \E t \in Threads : Drop(t)
        \/ \E t \in Threads, s \in 0..(MaxRecords * RecordSize) : Read(t, s)
        \/ \E t \in Threads : ClearDiscard(t)

Spec == Init /\ [][Next]_vars

\* concurrent inserts on one shard, each in either order of local() and the lock
NextStaged == \/ \E t \in Threads, c \in Cubes : InsertLocked(t, c)
              \/ \E t \in Threads, c \in Cubes : StageLocal(t, c)
              \/ \E t \in Threads : LockStaged(t)
              \/ \E t \in Threads, i \in 1..MaxRecords : Probe(t, i)
              \/ \E t \in Threads : Commit(t)
              \/ \E t \in Threads : Drop(t)

SpecStaged == Init /\ [][NextStaged]_vars

\* the offsets local() and commit() can hand out
SlotSeeks == { k * RecordSize : k \in 0..MaxRecords }

\* client threads calling local(), commit(), drop() and read() of one storage in
\* any order
NextSlot == \/ \E t \in Threads, c \in Cubes : ApiLocal(t, c)
            \/ \E t \in Threads : ApiCommit(t)
            \/ \E t \in Threads : ApiDrop(t)
            \/ \E t \in Threads, s \in SlotSeeks : ApiRead(t, s)

SpecSlot == Init /\ [][NextSlot]_vars

\* one client thread of a storage that is destroyed and constructed anew
NextReuse == \/ \E c \in Cubes : ApiLocal(1, c)
             \/ ApiCommit(1)
             \/ \E s \in SlotSeeks : ApiRead(1, s)
             \/ \E a \in Addrs : Reconstruct(a)

SpecReuse == Init /\ [][NextReuse]_vars

\* iterators over a range of a cache
InitIter ==
    /\ StorageInit /\ IndexInit /\ WriterInit /\ u64align = 8 /\ CodecOff /\ HashyOff
    /\ ReaderOff /\ SyncOff /\ MappedOff /\ LockOff /\ IterInit /\ CanonOff /\ RelinkOff /\ ReuseOff

NextIter == \/ IterIncrement
            \/ IterClone
            \/ CloneIncrement
            \/ \E k \in 0..MaxRangeCubes : CloneAdd(k)

SpecIter == InitIter /\ [][NextIter]_vars

\* the drivers of the enumeration
InitCanon ==
    /\ StorageInit /\ IndexInit /\ WriterInit /\ u64align = 8 /\ CodecOff /\ HashyOff
    /\ ReaderOff /\ SyncOff /\ MappedOff /\ LockOff /\ IterOff /\ CanonInit /\ RelinkOff /\ ReuseOff

NextCanon == \/ \E c \in BaseCubes : Expand(c)
             \/ \E p \in ExpandCandidates(xc) : Candidate(p)
             \/ Rotate
             \/ Recurse
             \/ NextCandidate

SpecCanon == InitCanon /\ [][NextCanon]_vars

\* one shard, one save() and the worker that runs its copy job
InitRelink ==
    /\ StorageInit /\ IndexInit /\ WriterInit /\ u64align = 8 /\ CodecOff /\ HashyOff
    /\ ReaderOff /\ SyncOff /\ MappedOff /\ LockOff /\ IterOff /\ CanonOff /\ RelinkInit /\ ReuseOff

NextRelink == \/ \E c \in IdxCubes : RelinkCommit(c)
              \/ RelinkDiscard
              \/ RelinkSchedule
              \/ RelinkCopy

SpecRelink == InitRelink /\ [][NextRelink]_vars

\* client threads inserting into the sharded index
NextIndex == \/ \E t \in Threads, c \in IdxCubes, s \in InsertShapes : IdxBegin(t, c, s)
             \/ \E t \in Threads : IdxLock(t)
             \/ \E t \in Threads : IdxAllocate(t)
             \/ \E t \in Threads : IdxFind(t)
             \/ \E t \in Threads : IdxLink(t)
             \/ \E t \in Threads : IdxCancel(t)

SpecIndex == Init /\ [][NextIndex]_vars

\* client threads inserting into the sharded index, whose shards are cleared
\* now and then
NextClear == \/ NextIndex
             \/ \E s \in DOMAIN byshape : \E i \in DOMAIN byshape[s] : IdxClear(s, i)

SpecClear == Init /\ [][NextClear]_vars

\* a client thread inserting into the index while one call of save() and the
\* worker threads of the CacheWriter run
NextWriter == \/ \E c \in IdxCubes, s \in InsertShapes : IdxBegin(1, c, s)
              \/ IdxLock(1)
              \/ IdxAllocate(1)
              \/ IdxFind(1)
              \/ IdxLink(1)
              \/ IdxCancel(1)
              \/ SaveSkip
              \/ SaveHeader
              \/ SaveShapeEntry
              \/ SaveSchedule
              \/ SaveFlush
              \/ \E w \in Workers : RunTakeCopy(w)
              \/ \E w \in Workers : RunCopy(w)
              \/ \E w \in Workers : RunTakeFlush(w)
              \/ \E w \in Workers : RunFlush(w)

SpecWriter == InitWriter /\ [][NextWriter]_vars

\* the cache tool going through the cubes of a cache one after the other
InitCodec == StorageInit /\ IndexInit /\ WriterInit /\ u64align = 8 /\ CodecInit /\ HashyOff /\ ReaderOff /\ SyncOff /\ MappedOff /\ LockOff /\ IterOff /\ CanonOff /\ RelinkOff /\ ReuseOff

NextCodec == \/ Encode
             \/ EncodeAbort
             \/ Decode
             \/ DecodeFault
             \/ Compare
             \/ NextCube

SpecCodec == InitCodec /\ [][NextCodec]_vars

\* encode() alone, on connected and unconnected cubes
NextEncode == \/ NextInput
              \/ Encode
              \/ EncodeAbort

SpecEncode == InitCodec /\ [][NextEncode]_vars

\* encode() on long cubes
NextEncodeLong == \/ NextLong
                  \/ Encode
                  \/ EncodeAbort

SpecLong == InitCodec /\ [][NextEncodeLong]_vars

\* Hashy::init(n) and calls of at() and insert() after it
InitHashy == StorageInit /\ IndexInit /\ WriterInit /\ u64align = 8 /\ CodecOff /\ HashyStart /\ ReaderOff /\ SyncOff /\ MappedOff /\ LockOff /\ IterOff /\ CanonOff /\ RelinkOff /\ ReuseOff

NextHashy == \/ GenBody
             \/ GenNextY
             \/ GenNextX
             \/ GenReturn
             \/ InitShape
             \/ InitReturn
             \/ \E s \in AtShapes : HashyAt(s)
             \/ \E cube \in AtCubes, s \in AtShapes : HashyInsert(cube, s)

SpecHashy == InitHashy /\ [][NextHashy]_vars

\* a CacheReader given files of any kind
InitReader ==
    StorageInit /\ IndexInit /\ WriterInit /\ u64align = 8 /\ CodecOff /\ HashyOff /\ ReaderInit
    /\ SyncOff /\ MappedOff /\ LockOff /\ IterOff /\ CanonOff /\ RelinkOff /\ ReuseOff

NextReader == \/ \E f \in ReaderFiles : LoadFile(f)
              \/ Unload
              \/ \E i \in 0..MaxShapes : GetCubesByShape(i)

SpecReader == InitReader /\ [][NextReader]_vars

\* a CacheWriter with its worker threads, calls of save() and the destructor
InitSync ==
    /\ StorageInit /\ IndexInit /\ WriterInit /\ u64align = 8 /\ CodecOff /\ HashyOff
    /\ ReaderOff /\ SyncInit /\ MappedOff /\ LockOff /\ IterOff /\ CanonOff /\ RelinkOff /\ ReuseOff

CallerGoesOn == \/ SyncSaveBlock
                \/ SyncSaveReturn
                \/ SyncFlushBlock
                \/ SyncFlushReturn
                \/ SyncStop
                \/ SyncJoin

WorkerGoesOn(w) == \/ SyncTakeCopy(w)
                   \/ SyncTakeFlush(w)
                   \/ SyncTask(w)
                   \/ SyncIdle(w)
                   \/ SyncExit(w)

NextSync == \/ SyncSchedule
            \/ SyncDestroy
            \/ CallerGoesOn
            \/ \E w \in Flushers : WorkerGoesOn(w)

SpecSync == InitSync /\ [][NextSync]_vars

\* every thread that can take a step is scheduled at some time; whether save()
\* or the destructor is called is up to the caller
SpecSyncFair ==
    SpecSync /\ WF_vars(CallerGoesOn) /\ \A w \in Flushers : WF_vars(WorkerGoesOn(w))

\* the mapped file alone: the operations of the tests in any order
InitMapped ==
    /\ StorageInit /\ IndexInit /\ WriterInit /\ u64align = 8 /\ CodecOff /\ HashyOff
    /\ ReaderOff /\ SyncOff /\ MappedInit /\ LockOff /\ IterOff /\ CanonOff /\ RelinkOff /\ ReuseOff

NextMapped == \/ \E nm \in MappedNames : MappedOpen(nm)
              \/ \E nm \in CreatedNames, len \in { 0, SizeofInt },
                    flags \in SUBSET { "CREATE", "RESIZE" } : MappedOpenRw(nm, len, flags)
              \/ \E off \in MappedOffs : MappedRegion(off)
              \/ \E v \in MappedVals : MappedWrite(v)
              \/ MappedFlush
              \/ MappedGet
              \/ MappedReset
              \/ \E n \in TruncLens : MappedTruncate(n)
              \/ MappedClose

SpecMapped == InitMapped /\ [][NextMapped]_vars

\* threads calling init, at, size and numShapes of one Hashy
InitLock ==
    /\ StorageInit /\ IndexInit /\ WriterInit /\ u64align = 8 /\ CodecOff /\ HashyOff
    /\ ReaderOff /\ SyncOff /\ MappedOff /\ LockInit /\ krev \in HashesRevs /\ IterOff /\ CanonOff /\ RelinkOff /\ ReuseOff

NextLock == \/ \E t \in Threads : LockInitCall(t)
            \/ \E t \in Threads : LockInitLock(t)
            \/ \E t \in Threads : LockInitFind(t)
            \/ \E t \in Threads : LockInitEmplace(t)
            \/ \E t \in Threads : LockInitReturn(t)
            \/ \E t \in Threads, shape \in InsertShapes : LockAt(t, shape)
            \/ \E t \in Threads : LockAtFind(t)
            \/ \E t \in Threads : LockAtExclusive(t)
            \/ \E t \in Threads : LockAtCreated(t)
            \/ \E t \in Threads : LockSize(t)
            \/ \E t \in Threads : LockSizeReturn(t)

SpecLock == InitLock /\ [][NextLock]_vars

\* reads of the records of a filled storage through the threads' read caches
InitCache ==
    /\ FilledInit /\ IndexInit /\ WriterInit /\ u64align = 8 /\ CodecOff /\ HashyOff
    /\ ReaderOff /\ SyncOff /\ MappedOff /\ LockOff /\ IterOff /\ CanonOff /\ RelinkOff /\ ReuseOff

NextCache == \/ \E t \in Threads, s \in CachedSeeks : Read(t, s)
             \/ \E t \in Threads : ResetReadCache(t)

SpecCache == InitCache /\ [][NextCache]_vars

Committed(cube) == \E s \in RecordSeeks : BytesCube(ReadAt(disk, s, RecordSize)) = cube

VersionSafety ==
    \A r \in rd : r.old # << >> =>
        /\ r.born = r.ver
        /\ (r.want # << >> /\ r.old[1] # r.want[1]) => r.val # r.old[1]

\* C6 witness: the reader still caches the cube of the discarded version
VersionSafetyWitness ==
    \E r \in rd : /\ r.old # << >>
                  /\ r.want # << >>
                  /\ r.old[1] # r.want[1]
                  /\ r.val = r.want[1]
                  /\ << r.seek, r.ver - 1, saddr >> \in DOMAIN tc[r.thread].cache
                  /\ tc[r.thread].cache[<< r.seek, r.ver - 1, saddr >>].cube = r.old[1]

(***************************************************************************)
(* Properties of the sharded index.                                        *)
(***************************************************************************)
\* C2: an insert of a cube that is already a member of its shard leaves the
\* shard's size() and its members as they were, and the storage's append cursor
\* is back at the value it had before the insert
DuplicateInsertNoChange ==
    \A r \in last : r.dup => /\ Len(r.setAfter) = Len(r.setBefore)
                             /\ r.setAfter = r.setBefore
                             /\ r.seekAfter = r.seekBefore

\* C2 witness: a duplicate insert returned on a shard that holds a record, the
\* cursor is where it was
DuplicateInsertWitness ==
    \E r \in last : /\ r.dup
                    /\ Len(r.setBefore) >= 1
                    /\ r.seekBefore >= RecordSize
                    /\ r.seekAfter = r.seekBefore

\* no insert is in progress
IndexQuiescent == \A t \in Threads : ipc[t] = "idle"

\* the cubes passed to insert for shape s
InsertedInto(s) == { c \in IdxCubes : << s, c >> \in inserted }

\* the cubes the members of shape s resolve to
MembersOf(s) == UNION { ShardMembers(byshape[s][i]) : i \in 0..(NUM - 1) }

\* C3: once the concurrent inserts have returned, size() of every shape is the
\* number of distinct cubes inserted into it, and its members are these cubes
ConcurrentInsertSize ==
    (IndexQuiescent /\ ~hashyAbort) =>
        \A s \in DOMAIN byshape : /\ SubhashySize(byshape[s]) = Cardinality(InsertedInto(s))
                                  /\ MembersOf(s) = InsertedInto(s)

\* C3 witness: all inserts returned, two of them ran together on one cube of one
\* shape, more calls were made than cubes are stored
ConcurrentInsertWitness ==
    /\ IndexQuiescent
    /\ ~hashyAbort
    /\ overlap
    /\ calls = MaxInserts
    /\ HashySize = 2
    /\ \E s \in DOMAIN byshape : SubhashySize(byshape[s]) = Cardinality(InsertedInto(s))
                                 /\ Cardinality(InsertedInto(s)) = 2

(***************************************************************************)
(* Properties of the cache file written by CacheWriter::save.              *)
(***************************************************************************)
\* save() wrote a cache file and its shape table is complete
TableDone == cstate # "none" /\ spc \in { "schedule", "wait", "returned" }

\* save() wrote a cache file and all copy jobs of the call are scheduled
ScheduleDone == cstate # "none" /\ spc \in { "wait", "returned" }

\* save() returned and every job it queued has run
SaveComplete ==
    /\ spc = "returned"
    /\ cstate = "closed"
    /\ m_copy = << >>
    /\ m_flushes = << >>
    /\ \A w \in Workers : wpc[w] = "run"

\* the bytes of the scheduled shards of one shape, in shard order, from job j on
RECURSIVE ConcatFrom(_, _)
ConcatFrom(jobs, j) ==
    IF j > Len(jobs) THEN << >> ELSE jobs[j].bytes \o ConcatFrom(jobs, j + 1)

\* the sum of the shard sizes of one shape as save() read them, from job j on
RECURSIVE CountFrom(_, _)
CountFrom(jobs, j) ==
    IF j > Len(jobs) THEN 0 ELSE jobs[j].num + CountFrom(jobs, j + 1)

\* the sum of size / (XYZ_SIZE * n) over the shape table, from entry i on
RECURSIVE TableCubesFrom(_)
TableCubesFrom(i) ==
    IF i > Len(shapeEntry) THEN 0
    ELSE (shapeEntry[i].size \div (XYZ_SIZE * CubeSize)) + TableCubesFrom(i + 1)

\* C7: after save() and all its jobs, the payload at every shape's table offset
\* is the concatenation, in shard order, of the first count records of each
\* non-empty shard's file, and the payload holds as many cubes as the shards do
SplicedPayload ==
    SaveComplete =>
        \A i \in 1..Len(keys) :
            /\ ReadAt(cachefile, shapeEntry[i].offset, shapeEntry[i].size) = ConcatFrom(sched[i], 1)
            /\ shapeEntry[i].size = CountFrom(sched[i], 1) * CubeSize * XYZ_SIZE

\* the same for a call of save() during which no insert added a member
SplicedPayloadQuiet ==
    (SaveComplete /\ header.numPolycubes = HashySize /\ ~lostCopy) =>
        \A i \in 1..Len(keys) :
            /\ ReadAt(cachefile, shapeEntry[i].offset, shapeEntry[i].size) = ConcatFrom(sched[i], 1)
            /\ shapeEntry[i].size = CountFrom(sched[i], 1) * CubeSize * XYZ_SIZE

CacheCounts ==
    ScheduleDone =>
        /\ header.numPolycubes = TableCubesFrom(1)
        /\ \A i \in 1..Len(shapeEntry) :
               /\ shapeEntry[i].size % (XYZ_SIZE * CubeSize) = 0
               /\ shapeEntry[i].size = CountFrom(sched[i], 1) * CubeSize * XYZ_SIZE

\* the same for a call of save() during which no insert added a member
CacheCountsQuiet ==
    (ScheduleDone /\ header.numPolycubes = HashySize) =>
        /\ header.numPolycubes = TableCubesFrom(1)
        /\ \A i \in 1..Len(shapeEntry) :
               /\ shapeEntry[i].size % (XYZ_SIZE * CubeSize) = 0
               /\ shapeEntry[i].size = CountFrom(sched[i], 1) * CubeSize * XYZ_SIZE

(***************************************************************************)
(* Properties of CompressedCube.                                           *)
(***************************************************************************)
\* C10: for a 6-connected cube c, decode(|c|, c[0]) of encode(c) yields, sorted,
\* exactly the sorted coordinates of c
CodecRoundTrip == cpc \in { "decoded", "equal", "error" } => cout = SortXYZ(ccube)

\* the same for the cubes of one and of two cells, where the byte that shares
\* enc[0] with encodedLen() holds at most the one direction nibble in its high half
CodecRoundTripSmall ==
    (cpc \in { "decoded", "equal", "error" } /\ Len(ccube) <= 2) => cout = SortXYZ(ccube)

(***************************************************************************)
(* Properties of Hashy::generateShapes, init and at.                       *)
(***************************************************************************)
\* the triples x <= y <= z with every axis in [0, n) and (x+1)(y+1)(z+1) >= n
BoxShapes(n) ==
    { << x, y, z >> : x \in 0..(n - 1), y \in 0..(n - 1), z \in 0..(n - 1) }

FeasibleShapes(n) ==
    { s \in BoxShapes(n) : s[1] <= s[2] /\ s[2] <= s[3] /\ (s[1] + 1) * (s[2] + 1) * (s[3] + 1) >= n }

Generated == { gout[k] : k \in 1..Len(gout) }

InitJustReturned == hpc = "ready" /\ hcalls = 0

\* C11: generateShapes(N) produces exactly the triples x <= y <= z with every
\* axis in [0, N) and (x+1)(y+1)(z+1) >= N, each once, and init(N) registers a
\* shard array for exactly these shapes
ShapesAsStated ==
    InitJustReturned =>
        /\ Generated = FeasibleShapes(hn)
        /\ Cardinality(Generated) = Len(gout)
        /\ DOMAIN hmap = FeasibleShapes(hn)

\* C11 amended: exactly those of these triples with x + y + z < N, each once, and
\* init(N) registers a shard array for exactly these shapes
ShapesWithinSum ==
    InitJustReturned =>
        /\ Generated = { s \in FeasibleShapes(hn) : s[1] + s[2] + s[3] < hn }
        /\ Cardinality(Generated) = Len(gout)
        /\ DOMAIN hmap = Generated
        /\ \A s \in DOMAIN hmap : hmap[s] = NoCubes

ShapesWitness ==
    /\ InitJustReturned /\ hn = MaxN
    /\ << 0, 1, 2 >> \in Generated
    /\ << 0, 0, 1 >> \notin Generated
    /\ << 0, 2, 3 >> \in FeasibleShapes(hn) \ Generated

\* C12: at(shape) or insert(cube, shape) with a shape init() did not register
\* aborts the program, adds no shape to the map and modifies no shard
UnknownShapeAborts ==
    (hcalls > 0 /\ ~hlast.known) => (hpc = "aborted" /\ hmap = hlast.map)

\* the same in the revision of hashes.hpp whose shards are on disk
UnknownShapeAbortsDisk ==
    (hrev = "disk" /\ hcalls > 0 /\ ~hlast.known) => (hpc = "aborted" /\ hmap = hlast.map)

(***************************************************************************)
(* Properties of CacheReader.                                              *)
(***************************************************************************)
\* C13: after loadFile() failed the reader is unloaded: operator bool is false,
\* size() == 0, numShapes() == 0 and getCubesByShape(i) is an empty range
LoadFailedUnloaded ==
    rret = 1 =>
        /\ ~fileLoaded_
        /\ ReaderSize = 0
        /\ ReaderNumShapes = 0
        /\ rget.called => rget.result = "empty"

\* the part of it that holds: operator bool is false, and where the file could
\* not be opened size() and numShapes() are 0
LoadFailedNotLoaded ==
    rret = 1 => (~fileLoaded_ /\ (~file_.exists => ReaderSize = 0 /\ ReaderNumShapes = 0))

(***************************************************************************)
(* Properties of the CacheWriter's queues and threads.                     *)
(***************************************************************************)
DestructorReturned == fpc = "destroyed"

Drained ==
    /\ q_copy = << >> /\ q_flushes = << >>
    /\ \A w \in Flushers : qpc[w] = "exit" /\ qjob[w] = 0
    /\ \A j \in Jobs : executed[j] = IF j <= issued THEN 1 ELSE 0

\* C14: when ~CacheWriter() returns both queues are empty, no job is executing,
\* every job save() scheduled was executed exactly once and every worker thread
\* has exited; and the destructor, once entered, eventually returns
DestructorDrains ==
    /\ [](DestructorReturned => Drained)
    /\ [](\A j \in Jobs : executed[j] <= 1)
    /\ (fpc = "dtor" ~> DestructorReturned)

DestructorDrainsWitness ==
    /\ DestructorReturned /\ issued = MaxJobs
    /\ \A j \in Jobs : executed[j] = 1

WaitsOnlyExceeding == (fpc # "savewait" /\ fpc' = "savewait") => (q_num_copys > NumFlushers)

ReturnsOnlyWithin ==
    (fpc \in { "sched", "savewoken" } /\ fpc' = "idle") => (q_num_copys' <= NumFlushers)

JobHolds(shape, idx) ==
    \/ \E k \in 1..Len(m_copy) : m_copy[k].shape = shape /\ m_copy[k].idx = idx
    \/ \E w \in Workers : /\ wpc[w] = "copy"
                          /\ wjob[w].shape = shape
                          /\ wjob[w].idx = idx

\* C16: a storage file that its CubeStorage still has open, or that a pending
\* copy job of the CacheWriter holds, still has its name in the directory
StorageFileKept ==
    \A shape \in DOMAIN byshape : \A idx \in 0..(NUM - 1) :
        (byshape[shape][idx].m_file \/ JobHolds(shape, idx)) => byshape[shape][idx].named

(***************************************************************************)
(* Properties of the mapped file.                                          *)
(***************************************************************************)
\* C17: open() in read-only mode of a name that is no file gives a negative
\* result and leaves the mapped::file closed: is_rw() is false, size() is 0 and
\* the name is still no file
OpenMissingFails ==
    (mlast.op = "open" /\ ~mlast.existed) =>
        /\ mresult < 0
        /\ ~mfile.open
        /\ ~is_rw
        /\ MappedSize = 0
        /\ fsys[mlast.name] = Absent

OpenMissingFailsWitness ==
    /\ mlast.op = "open"
    /\ mlast.name = "thisfileshouldnotexist"
    /\ ~mlast.existed
    /\ mresult < 0
    /\ fsys["test_file.bin"] # Absent

\* C18: a region constructed on a read-write file leaves the file long enough
\* for the view, an empty file one page long; a region constructed on a
\* read-only file leaves the length as it was; after truncate(n) size() is n;
\* a read-only region reads the value that was last written and flushed at its
\* offset
RegionAndTruncate ==
    /\ (mregion.live /\ mfile.rw) =>
          /\ MappedSize >= mregion.off + SizeofInt
          /\ MappedSize >= mregion.before
          /\ (mregion.before = 0 => MappedSize = PAGE_SIZE)
    /\ (mlast.op = "region" /\ ~mfile.rw) => MappedSize = mregion.before
    /\ (mregion.live /\ ~mfile.rw) => MappedSize = mregion.before
    /\ (mlast.op = "truncate") => MappedSize = mlast.arg
    /\ (mlast.op = "get" /\ ~mfile.rw /\ fsys[mfile.path].pend[mregion.off] = NoVal) =>
          mread = fsys[mfile.path].want[mregion.off]

RegionAndTruncateWitness ==
    /\ mlast.op = "get"
    /\ ~mfile.rw
    /\ mregion.live
    /\ MappedSize = SizeofInt
    /\ fsys[mfile.path].pend[mregion.off] = NoVal
    /\ mread = 1

(***************************************************************************)
(* Properties of CompressedCube::encode.                                   *)
(***************************************************************************)
\* encode(cube) returned: ERROR unconnected was printed exactly when the cube is
\* not 6-connected, and for a 6-connected cube every cell was emitted once
ReportedExactly(cube) ==
    LET w == WalkOf(cube)
    IN  /\ w.unconnected <=> ~Connected(cube)
        /\ Connected(cube) =>
              /\ w.left = << >>
              /\ Len(w.done) = Len(cube)
              /\ { w.done[k] : k \in 1..Len(w.done) } = { cube[k] : k \in 1..Len(cube) }

EncodeReportsReturned == cpc = "encoded" => ReportedExactly(ccube)

(***************************************************************************)
(* Properties of the routing of cubes to shards.                           *)
(***************************************************************************)
\* the cubes stored in the shards of a Subhashy
StoredIn(sub) == UNION { ShardMembers(sub[i]) : i \in 0..(NUM - 1) }

\* C20: every cube stored under a shape is in the shard whose index is
\* HashCube(cube) mod the number of shards, no cube is in two shards of a
\* shape, and size() of the shape is the number of cubes in the union of its
\* shards
RoutedByHash ==
    \A s \in DOMAIN byshape :
        /\ \A i \in 0..(NUM - 1) : \A cube \in ShardMembers(byshape[s][i]) :
               i = U64Mod(HashCube(cube), NUM)
        /\ \A i, j \in 0..(NUM - 1) :
               i # j => ShardMembers(byshape[s][i]) \cap ShardMembers(byshape[s][j]) = {}
        /\ SubhashySize(byshape[s]) = Cardinality(StoredIn(byshape[s]))

\* C20 witness: all the inserts were called and a shape holds two cubes in two
\* different shards, neither of them the first shard
RoutedByHashWitness ==
    \E s \in DOMAIN byshape : \E i, j \in 1..(NUM - 1) :
        /\ i # j
        /\ ShardMembers(byshape[s][i]) # {}
        /\ ShardMembers(byshape[s][j]) # {}
        /\ SubhashySize(byshape[s]) = 2
        /\ calls = MaxInserts

(***************************************************************************)
(* Properties of the lock of the shape map.                                *)
(***************************************************************************)
\* a thread that is adding a shape to byshape holds set_mutex exclusively, and
\* no thread holds the shared lock meanwhile
ModifiesExclusively ==
    kmod # {} => /\ \A t \in kmod : kexcl = t
                 /\ kshared = {}

\* C21: every modification of the shape map is made with set_mutex held
\* exclusively, so no thread holding the shared lock in at(), size() or
\* numShapes() runs together with one
MapLockedForWrite == ModifiesExclusively

\* in the revision of hashes.hpp with in-memory shards the map is modified
\* under the exclusive lock only
MapLockedForWriteMemory == krev = "memory" => ModifiesExclusively

(***************************************************************************)
(* Properties of the thread-local read cache.                              *)
(***************************************************************************)
\* the keys of an LRU list
LruKeys(lru) == { lru[i] : i \in 1..Len(lru) }

\* an LRU list without one key, the other keys in their order
LruWithout(lru, key) == SelectSeq(lru, LAMBDA k : k # key)

\* thread t does a read() of the record at s that finds its key in the cache
HitStep(t, s) ==
    /\ Read(t, s)
    /\ ~IsLocalPtr(tc[t], s)
    /\ CacheKey(s) \in DOMAIN tc[t].cache

\* thread t does a read() of the record at s that does not find its key
MissStep(t, s) ==
    /\ Read(t, s)
    /\ ~IsLocalPtr(tc[t], s)
    /\ CacheKey(s) \notin DOMAIN tc[t].cache

\* a hit returns with its key at the back of the list, the other keys in the
\* order they had, and the same keys in list and map
HitToTail ==
    \A t \in Threads, s \in CachedSeeks :
        HitStep(t, s) =>
            /\ ~aborted'
            /\ tc'[t].lru # << >>
            /\ tc'[t].lru[Len(tc'[t].lru)] = CacheKey(s)
            /\ LruWithout(tc'[t].lru, CacheKey(s)) = LruWithout(tc[t].lru, CacheKey(s))
            /\ LruKeys(tc'[t].lru) = LruKeys(tc[t].lru)
            /\ DOMAIN tc'[t].cache = DOMAIN tc[t].cache

\* C24: after a read() that hits the cache on key k, k is the most recently
\* used entry (the back of the LRU list), the other entries keep their order,
\* and list and map hold the keys they held
HitMovesToTail == [][HitToTail]_vars

\* a hit on the entry that already is at the back leaves the list as it is
HitAtTailKeeps ==
    [][\A t \in Threads, s \in CachedSeeks :
          (HitStep(t, s) /\ tc[t].lru[Len(tc[t].lru)] = CacheKey(s)) =>
              tc'[t] = tc[t] /\ ~aborted']_vars

\* the entry of the read() a thread did last is still in its cache after the
\* thread's next read()
LastReadKept ==
    \A t \in Threads, s \in CachedSeeks :
        Read(t, s) =>
            \A r \in rd : r.thread = t => << r.seek, r.ver, saddr >> \in DOMAIN tc'[t].cache

\* C25: the cube a read() returned is not evicted by the next read() of the
\* same thread, hit or miss, cache full or not: in CubePtrEqual(a, b) the
\* entry of a.get() is still in the cache after b.get()
ReadSurvivesNextRead == [][LastReadKept]_vars

\* the next read() never evicts the entry of a read() that missed, or that hit
\* the entry at the back of the list
MissSurvivesNextRead ==
    [][\A t \in Threads, s \in CachedSeeks :
          Read(t, s) =>
              \A r \in rd : (r.thread = t /\ (~r.hit \/ tc[t].lru[Len(tc[t].lru)] = << r.seek, r.ver, saddr >>))
                               => << r.seek, r.ver, saddr >> \in DOMAIN tc'[t].cache]_vars

\* every thread's cache holds at most CacheCap entries, and its LRU list holds
\* the keys of its map, each once
CacheConsistent ==
    \A t \in Threads :
        /\ Cardinality(DOMAIN tc[t].cache) <= CacheCap
        /\ LruKeys(tc[t].lru) = DOMAIN tc[t].cache
        /\ Len(tc[t].lru) = Cardinality(DOMAIN tc[t].cache)

\* a miss puts the new key at the back; on a full cache it first drops the
\* entry at the front of the list and nothing else
MissEvictsHead ==
    \A t \in Threads, s \in CachedSeeks :
        MissStep(t, s) =>
            IF Len(tc[t].lru) >= CacheCap
            THEN /\ tc'[t].lru = Append(Tail(tc[t].lru), CacheKey(s))
                 /\ DOMAIN tc'[t].cache =
                       ((DOMAIN tc[t].cache) \ { Head(tc[t].lru) }) \cup { CacheKey(s) }
            ELSE /\ tc'[t].lru = Append(tc[t].lru, CacheKey(s))
                 /\ DOMAIN tc'[t].cache = (DOMAIN tc[t].cache) \cup { CacheKey(s) }

\* C26: a thread's read cache never holds more than its capacity, LRU list and
\* key map hold the same keys, and a miss on a full cache evicts the entry at
\* the front of the list, and only it, and puts the new entry at the back
CacheBounded == [] CacheConsistent /\ [][MissEvictsHead]_vars

\* C26 witness: a read() missed on a full cache and dropped an entry
CacheBoundedWitness ==
    \E r \in rd : /\ ~r.hit
                   /\ r.gone # {}
                   /\ Len(tc[r.thread].lru) = CacheCap
                   /\ tc[r.thread].lru[CacheCap] = << r.seek, r.ver, saddr >>

(***************************************************************************)
(* Properties of the two job queues of the CacheWriter.                    *)
(***************************************************************************)
\* the job numbers of a queue grow from front to back: the queue holds its jobs
\* in the order save() enqueued them
InOrder(q) == \A i, j \in 1..Len(q) : i < j => q[i] < q[j]

\* a worker that holds the lock while m_active is set and m_copy is not empty
\* leaves with the job at the front of m_copy; a worker that starts a flush job
\* found m_copy empty and took the front of m_flushes
TakesByPriority ==
    \A w \in Flushers :
        /\ (qpc[w] \in TakesLock /\ q_active /\ q_copy # << >> /\ qpc'[w] # qpc[w]) =>
              /\ qpc'[w] = "copy"
              /\ qjob'[w] = Head(q_copy)
              /\ q_copy' = Tail(q_copy)
              /\ q_flushes' = q_flushes
        /\ (qpc[w] # "flush" /\ qpc'[w] = "flush") =>
              /\ q_copy = << >>
              /\ qjob'[w] = Head(q_flushes)
              /\ q_flushes' = Tail(q_flushes)

\* C22: a worker takes a flush job only when the copy queue is empty; while
\* the copy queue is not empty a worker that looks for work takes a copy job,
\* and the queued copy jobs are all taken in the end; each queue hands out its
\* jobs in the order they were enqueued
CopyBeforeFlush ==
    /\ [][TakesByPriority]_vars
    /\ [](InOrder(q_copy) /\ InOrder(q_flushes))
    /\ (q_copy # << >> ~> q_copy = << >>)

\* C22 witness: a worker runs the flush job of the first save() with the copy
\* queue empty and the copy job done, while the flush job of a second save()
\* waits in the queue
CopyBeforeFlushWitness ==
    \E w \in Flushers :
        /\ qpc[w] = "flush"
        /\ qjob[w] = 2
        /\ q_copy = << >>
        /\ executed[1] = 1
        /\ q_flushes = << 4 >>

(***************************************************************************)
(* Properties of the destinations of the copy jobs of one save().          *)
(***************************************************************************)
\* the copy jobs save() scheduled, as pairs of shape index and job index
ScheduledJobs == { p \in (1..Len(sched)) \X (1..NUM) : p[2] <= Len(sched[p[1]]) }

\* the first byte of the destination of a scheduled job and the byte behind it
DestBegin(p) == sched[p[1]][p[2]].dest
DestEnd(p) == sched[p[1]][p[2]].dest + sched[p[1]][p[2]].num * CubeSize * XYZ_SIZE

\* shapeEntry->getEndSeek()
TableEnd == ArrayEndSeek(StructEndSeek(0, SizeofHeader), Len(keys), SizeofShapeEntry)

\* C23: the destinations of the copy jobs scheduled by one save() are pairwise
\* disjoint and lie between the end of the shape table and fileEnd
DisjointDest ==
    ScheduleDone =>
        /\ \A p \in ScheduledJobs : TableEnd <= DestBegin(p) /\ DestEnd(p) <= fileEnd
        /\ \A p, q \in ScheduledJobs :
               p # q => (DestEnd(p) <= DestBegin(q) \/ DestEnd(q) <= DestBegin(p))

\* the same for a call of save() during which no insert added a member
DisjointDestQuiet ==
    (ScheduleDone /\ header.numPolycubes = HashySize) =>
        /\ \A p \in ScheduledJobs : TableEnd <= DestBegin(p) /\ DestEnd(p) <= fileEnd
        /\ \A p, q \in ScheduledJobs :
               p # q => (DestEnd(p) <= DestBegin(q) \/ DestEnd(q) <= DestBegin(p))

\* every scheduled job lies between the end of the shape table and fileEnd
DestInsideFile ==
    ScheduleDone =>
        \A p \in ScheduledJobs : TableEnd <= DestBegin(p) /\ DestEnd(p) <= fileEnd

(***************************************************************************)
(* Frame properties of CubeStorage::discard, local and drop.               *)
(***************************************************************************)
\* a step in which the storage gives up its file handle or changes its version
\* is a discard() of an open file: the bytes on disk stay, the cursor is 0 and
\* the version grows by one; a discard() with no open file changes nothing of
\* the storage; a commit() that opens the file writes its record at offset 0
\* and leaves the bytes behind the record as they were
DiscardStep ==
    /\ ((m_file /\ ~m_file') \/ m_storage_version' # m_storage_version) =>
          /\ m_file /\ ~m_file'
          /\ disk' = disk
          /\ m_alloc_seek' = 0
          /\ m_storage_version' = m_storage_version + 1
    /\ \A t \in Threads : (ClearDiscard(t) /\ ~m_file) =>
          UNCHANGED << m_file, m_alloc_seek, m_storage_version, disk, tc >>
    /\ (~m_file /\ m_file') =>
          /\ m_alloc_seek' = RecordSize
          /\ \E t \in Threads : ReadAt(disk', 0, RecordSize) = CubeBytes(tc[t].local)
          /\ Len(disk') = Max(Len(disk), RecordSize)
          /\ \A i \in (RecordSize + 1)..Len(disk) : disk'[i] = disk[i]

\* C27: discard() of a storage with committed records leaves the bytes of the
\* file unchanged, gives up the handle, sets the cursor to 0 and adds 1 to the
\* version, so that the next commit() writes at offset 0; discard() with no open
\* file changes nothing
DiscardFrame == [][DiscardStep]_vars /\ [](~m_file => m_alloc_seek = 0)

\* C27 witness: two records were committed, discard() ran, and the next commit()
\* wrote its record at offset 0 of the file that still has the second record
DiscardFrameWitness ==
    /\ m_storage_version = 1
    /\ m_file
    /\ m_alloc_seek = RecordSize
    /\ Len(disk) = 2 * RecordSize
    /\ ~aborted

\* thread t called local(c) and then drop(): the slot is off, its offset is
\* forgotten, ptr[t] is the offset local(c) returned and cand[t] is c
Dropped(t) == tc[t].local # << >> /\ ~tc[t].local_enabled /\ tc[t].local_seek = -1

\* local() and drop() change nothing of the file, the cursor and the version, and
\* a local() that follows the drop() with the cursor where it was returns the
\* offset again
SlotFrameStep ==
    \A t \in Threads :
        /\ (<< disk, m_file, m_alloc_seek, m_storage_version >>'
               # << disk, m_file, m_alloc_seek, m_storage_version >>) =>
              ~((\E c \in Cubes : ApiLocal(t, c)) \/ ApiDrop(t))
        /\ (Dropped(t) /\ ptr[t] = m_alloc_seek /\ tc'[t].local_enabled /\ (\E d \in Cubes : ApiLocal(t, d))) =>
              (ptr'[t] = ptr[t] /\ tc'[t].local_seek = ptr[t])

\* as stated: a read() of the offset after the drop() does not return c, and a
\* commit() or drop() with the slot off trips the assertion
SlotOnceStepAsStated ==
    \A t \in Threads :
        /\ (Dropped(t) /\ ApiRead(t, ptr[t])) => \A r \in rd' : r.val # cand[t]
        /\ (~tc[t].local_enabled /\ (ApiCommit(t) \/ ApiDrop(t))) => aborted'

\* a read() after the drop() is not answered from the slot: it returns the record
\* committed at the offset; commit() and drop() leave the slot off, and a
\* commit() or drop() with the slot off finds assert(ctx.local_enabled) false,
\* which ends the program unless the assertion is compiled out
SlotOnceStep ==
    \A t \in Threads :
        /\ \A s \in SlotSeeks :
              (~tc[t].local_enabled /\ rd' # {} /\ ApiRead(t, s)) =>
                  (s \in DOMAIN pub /\ \A r \in rd' : r.val = pub[s])
        /\ (~aborted' /\ tc'[t].local_enabled /\ rd' = {}) => ~(ApiCommit(t) \/ ApiDrop(t))
        /\ (~tc[t].local_enabled /\ rd' = {} /\ (ApiCommit(t) \/ ApiDrop(t))) =>
              /\ viaLock[t] \in assertFailed'
              /\ aborted' \/ UNCHANGED aborted

RECURSIVE StoredOffset(_, _)
StoredOffset(sizes, i) ==
    IF i = 1 THEN XyzSeek(Len(sizes))
    ELSE NextOffset(StoredOffset(sizes, i - 1), sizes[i - 1])

\* a cache of CacheWriter::save() is loaded and getCubesByShape was called
RangeTaken == fileLoaded_ /\ rret = 0 /\ rget.called

\* the range returned for a shape of the table
RangeOfTable ==
    (RangeTaken /\ rget.i < header_.numShapes) =>
        IF header_.sizes[rget.i + 1] = 0
        THEN rget.result = "empty"
        ELSE /\ rget.result = "cubes"
             /\ rget.start = StoredOffset(header_.sizes, rget.i + 1)
             /\ rget.size * CubeSize * XYZ_SIZE = header_.sizes[rget.i + 1]

\* C29: for a cache written by save(), getCubesByShape(i) with i < numShapes
\* yields the cubes in the bytes [offset[i], offset[i] + size_bytes[i]) of the
\* file, the offsets the reader sums up being the offsets the writer stored, also
\* behind empty shapes; with i >= numShapes it yields an empty range
RangeMatchesTable ==
    /\ RangeOfTable
    /\ (RangeTaken /\ rget.i >= header_.numShapes) => rget.result = "empty"

(***************************************************************************)
(* Properties of the length of the cache file after the flush job.         *)
(***************************************************************************)
\* loadFile: datasize, the sum of shapes[i].size over the table, from entry i on
RECURSIVE DataSizeFrom(_)
DataSizeFrom(i) ==
    IF i > Len(shapeEntry) THEN 0 ELSE shapeEntry[i].size + DataSizeFrom(i + 1)

\* the flush job of save() ran: the file is truncated and closed
Finalized == cstate = "closed"

\* loadFile: file_->size() != shapes_->getEndSeek() + datasize is false
SizeCheckPasses == Len(cachefile) = TableEnd + DataSizeFrom(1)

\* loadFile: the view array_region<XYZ>(file_, shapes_->getEndSeek(), datasize),
\* an array of datasize records of XYZ_SIZE bytes, ends inside the file
PayloadInsideFile == ArrayEndSeek(TableEnd, DataSizeFrom(1), XYZ_SIZE) <= Len(cachefile)

\* C30: the flush job truncates the cache to the end of the shape table plus the
\* sum of all size_bytes, so that the reader's test of the file size passes and
\* the payload region the reader maps lies inside the file
TruncatedToPayload == Finalized => (SizeCheckPasses /\ PayloadInsideFile)

\* the length is the fileEnd the scheduling loop computed, and it is the length
\* the reader expects if no insert added a member during save()
TruncatedToFileEnd ==
    Finalized =>
        /\ Len(cachefile) = fileEnd
        /\ header.numPolycubes = HashySize => SizeCheckPasses

\* after a save() during which no insert added a member, the reader's view ends
\* inside the file only if the cache holds no cube
PayloadInsideOnlyEmpty ==
    (Finalized /\ header.numPolycubes = HashySize /\ PayloadInsideFile) => DataSizeFrom(1) = 0

(***************************************************************************)
(* Properties of the cache iterators and ranges.                           *)
(***************************************************************************)
\* the position k cube records behind begin()
RecordsFromBegin(k) == itbegin + k * itn * XYZ_SIZE

\* the iterator and its clone stand as many records behind begin() as they were
\* advanced by, with ++ or with +=
StepsAreRecords ==
    itkind \in RangeKinds =>
        /\ itpos = RecordsFromBegin(itcount)
        /\ clpos # -1 => clpos = RecordsFromBegin(clcount)

\* a clone is equal to its original, and a step of the clone leaves the original
\* where it is
CloneStep ==
    /\ IterClone => clpos' = itpos
    /\ clpos' # clpos => itpos' = itpos

\* begin() is end() after size() increments and not before, and size() is the
\* number of cubes between them
SizeIsCubes ==
    itkind \in RangeKinds =>
        /\ (itpos = itend) <=> (itcount = itsize)
        /\ RecordsFromBegin(itsize) = itend

\* C31: for both flavours of iterator and range, a clone is equal to its
\* original and advancing it leaves the original's position, ++ advances by one
\* cube record, it += k is the position of k applications of ++, and begin()
\* is equal to end() after exactly size() increments, size() being the number
\* of cubes of the range
IterContract == [](StepsAreRecords /\ SizeIsCubes) /\ [][CloneStep]_vars

\* the same without size() for both flavours, and with it for the ShapeRange
IterContractMemory ==
    /\ [](StepsAreRecords /\ (itkind = "memory" => SizeIsCubes))
    /\ [][CloneStep]_vars

\* size() of a FileShapeRange is three times the number of its cubes
FileSizeCountsXYZ ==
    itkind = "file" => itsize * itn = itend - itbegin

(***************************************************************************)
(* Properties of the layout of CompressedCube::enc.                        *)
(***************************************************************************)
\* the k-th byte of the instructions encode() emitted for the cube at hand, high
\* nibble first
PackedByte(k) == encode(ccube).emitted[2 * k - 1] * 16 + encode(ccube).emitted[2 * k]

\* the number of those bytes
PackedLen == Len(encode(ccube).emitted) \div 2

\* C32: after encode(c), encodedLen() is the number of packed instruction bytes,
\* the emitted nibbles padded to even and divided by 2, the bytes begin()..end()
\* hold exactly the emitted nibbles, high nibble first, and the length byte
\* precedes the instruction bytes without overlapping them
PackedBehindLength ==
    cpc = "encoded" =>
        /\ Len(encode(ccube).emitted) % 2 = 0
        /\ enc[1] = PackedLen
        /\ \A k \in 1..PackedLen : enc[1 + k] = PackedByte(k)

\* what the array holds: the instruction bytes from enc[0] on, and in enc[0] the
\* first of them with the number of bytes added to it
PackedOverLength ==
    cpc = "encoded" =>
        /\ Len(encode(ccube).emitted) % 2 = 0
        /\ enc[1] = IF PackedLen = 0 THEN 0 ELSE (PackedByte(1) + PackedLen) % 256
        /\ \A k \in 2..PackedLen : enc[k] = PackedByte(k)
        /\ \A k \in (PackedLen + 1)..ENC_SIZE : k > 1 => enc[k] = 136

(***************************************************************************)
(* Properties of the canonical rotation.                                   *)
(***************************************************************************)
\* the sorted rotations of newCube that Rotations::rotate accepts
ValidRotations ==
    { SortXYZ(rotate(i, ShapeOf(newCube), newCube).cube) :
        i \in { j \in 0..(NUM_ROTATIONS - 1) :
                   Len(rotate(j, ShapeOf(newCube), newCube).cube) # 0 } }

\* the cube handed to the hash set is one of the sorted rotations of the candidate
InsertedIsRotation ==
    xpc \in { "inserted", "counted" } => lowestHashCube \in ValidRotations

\* C33: the cube that expand() inserts for a candidate is sorted and no valid
\* sorted rotation of the candidate is smaller than it under Cube::operator<, and
\* Workset::recurse counts a cube exactly when it is that representative
SameRepresentative ==
    /\ xpc \in { "inserted", "counted" } =>
            /\ lowestHashCube = SortXYZ(lowestHashCube)
            /\ \A r \in ValidRotations : ~CubeLess(r, lowestHashCube)
    /\ xpc = "counted" => (recnum = 1 <=> lowestHashCube = SortXYZ(newCube))

\* expand() inserts the sorted rotation that no valid rotation is greater than
InsertsGreatest ==
    xpc \in { "inserted", "counted" } =>
        /\ lowestHashCube = SortXYZ(lowestHashCube)
        /\ \A r \in ValidRotations : ~CubeLess(lowestHashCube, r)

\* Workset::recurse counts a cube exactly when no valid rotation is smaller
CountsLeast ==
    xpc = "counted" =>
        (recnum = 1 <=> \A r \in ValidRotations : ~CubeLess(r, SortXYZ(newCube)))

\* a candidate with two different valid rotations has been handed to the hash
\* set and counted
TwoRotationsCounted ==
    xpc = "counted" /\ Cardinality(ValidRotations) > 1

(***************************************************************************)
(* Properties of the append cursor and the offsets in a shard's set.       *)
(***************************************************************************)
\* the offsets are multiples of the record size, below the cursor, and no two
\* nodes have the same
OffsetsInOrder(seek, offs) ==
    /\ seek % RecordSize = 0
    /\ \A k \in 1..Len(offs) : offs[k] % RecordSize = 0 /\ offs[k] < seek
    /\ \A k, m \in 1..Len(offs) : k # m => offs[k] # offs[m]

CopyQueued(j) == \E k \in 1..Len(q_copy) : q_copy[k] = j

\* a worker has taken the copy job and not yet finished its task()
CopyExecuting(j) == \E w \in Flushers : qpc[w] = "copy" /\ qjob[w] = j

\* the jobs of one save() are numbered in a row and its flush job is the last
\* of them: the job before a flush job is a copy job into the same file
LastCopyOf(f) == f - 1

\* C35: the flush job of a cache file never starts while a copy job that writes
\* into the same file is still queued or still executing on another worker
FlushAfterCopies ==
    \A w \in Flushers :
        qpc[w] = "flush" =>
            ~CopyQueued(LastCopyOf(qjob[w])) /\ ~CopyExecuting(LastCopyOf(qjob[w]))

\* a flush job never runs while a copy job into its file is queued
FlushAfterQueuedCopies ==
    \A w \in Flushers : qpc[w] = "flush" => ~CopyQueued(LastCopyOf(qjob[w]))

(***************************************************************************)
(* Properties of the copy job and the storage it was scheduled for.        *)
(***************************************************************************)
\* C36: the bytes a copy job writes are the records the storage held when save()
\* scheduled it, also when the storage was discarded and committed to again
\* before the job ran, and the job does not remove the name of the file those
\* commits opened
CopiesScheduledBytes ==
    ljob.state = "done" =>
        /\ lout = lheld
        /\ (lreopened /\ lfile # 0) => lnamed = lfile

\* the job copies the scheduled records if the storage was not committed to
\* after a discard() in between
CopiesIfNotReopened ==
    (ljob.state = "done" /\ ~lreopened) => lout = lheld

\* a commit() that follows a discard() while the job is queued opens the file
\* the job holds
ReopensJobFile ==
    (ljob.state = "queued" /\ lreopened /\ lfile # 0) => lfile = ljob.src

\* the job has run after the storage was discarded and committed to again
CopiedAfterReopen ==
    ljob.state = "done" /\ lreopened /\ lfile # 0

(***************************************************************************)
(* Properties of the records of a shard's file that save() copies.         *)
(***************************************************************************)
\* the cubes in the first num records of the shard's file, in their order
FirstRecords(sh, num) ==
    [k \in 1..num |-> BytesCube(ReadAt(sh.data, (k - 1) * RecordSize, RecordSize))]

\* the byte range save() copies for the shard holds the cubes of its set, each
\* once, and ends at the append cursor
RangeIsSet(sh) ==
    /\ SubsubhashySize(sh) * RecordSize = sh.m_alloc_seek
    /\ { FirstRecords(sh, SubsubhashySize(sh))[k] : k \in 1..SubsubhashySize(sh) }
           = ShardMembers(sh)
    /\ Cardinality(ShardMembers(sh)) = SubsubhashySize(sh)

\* C37: after any sequence of insert and clear operations on a shard, the first
\* size() records of its storage file are exactly the cubes in its set, each
\* once, and size() times the record size is the append cursor
CopiedRangeIsSet ==
    \A s \in DOMAIN byshape : \A i \in DOMAIN byshape[s] :
        MutexFree(byshape[s][i]) => RangeIsSet(byshape[s][i])

\* a clear() leaves the cursor and the records where they are: the cubes of the
\* set are the records at the offsets of its nodes, all below the cursor, and
\* the set has no more nodes than the file has records
SetBelowCursor ==
    \A s \in DOMAIN byshape : \A i \in DOMAIN byshape[s] :
        /\ OffsetsInOrder(byshape[s][i].m_alloc_seek, byshape[s][i].set)
        /\ MutexFree(byshape[s][i]) =>
              /\ SubsubhashySize(byshape[s][i]) * RecordSize <= byshape[s][i].m_alloc_seek
              /\ Cardinality(ShardMembers(byshape[s][i])) = SubsubhashySize(byshape[s][i])

(***************************************************************************)
(* Properties of the reads that are answered from the staging slot.        *)
(***************************************************************************)
\* the last read() was answered from the slot of its thread (a read() changes
\* nothing of the slot)
FromSlot(r) == IsLocalPtr(tc[r.thread], r.seek)

\* C38: read(p) returns the staged cube only when the calling thread staged it
\* with local() and p is the offset local() returned, and never for an offset
\* that another thread has committed meanwhile
SlotReadOwnOnly ==
    \A r \in rd :
        FromSlot(r) =>
            /\ r.val = cand[r.thread]
            /\ r.seek = ptr[r.thread]
            /\ r.seek \notin DOMAIN pub

\* a read() answered from the slot returns the cube its thread staged, for the
\* offset local() returned to it
SlotReadOwnOffset ==
    \A r \in rd :
        FromSlot(r) => (r.val = cand[r.thread] /\ r.seek = ptr[r.thread])

\* a slot whose offset has been committed meanwhile was staged with the cursor
\* at that offset, and the cursor has moved on
SlotOffsetTaken ==
    \A r \in rd :
        (FromSlot(r) /\ r.seek \in DOMAIN pub) => r.seek < m_alloc_seek

(***************************************************************************)
(* Properties of the read cache across the lifetimes of storages.          *)
(***************************************************************************)
\* the cache entry that answered the read r, a cache hit
HitEntry(r) == tc[r.thread].cache[<< r.seek, r.ver, saddr >>]

\* C39: after a CubeStorage was destroyed and another one constructed, at the
\* same address or not, a read() on the new storage never hits a cache entry
\* that was made by a read() on the destroyed one
HitsOwnStorage == \A r \in rd : r.hit => HitEntry(r).gen = sgen

\* a hit on an entry of the destroyed storage needs the new storage at the old
\* address; at another address every read() of a record returns the record
HitsOwnElsewhere ==
    \A r \in rd :
        /\ (r.hit /\ HitEntry(r).gen # sgen) => saddr = 1
        /\ (saddr # 1 /\ r.want # << >> /\ ~IsLocalPtr(tc[r.thread], r.seek)) =>
              r.val = r.want[1]

\* a read() on the second storage has returned a cube of the first one in place
\* of the record that was committed at the offset
StaleHitSeen ==
    \E r \in rd : r.hit /\ HitEntry(r).gen # sgen /\ r.want # << >> /\ r.val # r.want[1]

\* the jump distances decode() accumulates from a sequence of nibbles, from
\* nibble k on: three bits for each jump nibble, taken at the next direction
\* nibble; a jump nibble with no direction behind it is the padding
RECURSIVE JumpsFrom(_, _, _)
JumpsFrom(nibs, k, jumpoff) ==
    IF k > Len(nibs) THEN << >>
    ELSE IF nibs[k] >= 8 THEN JumpsFrom(nibs, k + 1, JumpShift(jumpoff, nibs[k] % 8))
    ELSE IF jumpoff # noJump THEN << jumpoff >> \o JumpsFrom(nibs, k + 1, noJump)
    ELSE JumpsFrom(nibs, k + 1, noJump)

\* the jump distances of the code: uint32_t values as two limbs
AsJumpoff(seq) == [k \in 1..Len(seq) |-> << 0, seq[k] >>]

\* C40: for every 6-connected cube encode() writes only inside the enc array
\* of 24 bytes, and every jump distance it emits, 64 and more included, is
\* the distance decode() accumulates from the emitted nibbles
FitsAndJumpsRecovered ==
    cpc = "encoded" =>
        LET r == encode(ccube)
        IN  /\ ~r.overrun
            /\ JumpsFrom(r.emitted, 1, noJump) = AsJumpoff(r.jumps)

\* encode() stores past the array exactly when it emits more than two nibbles
\* for each of the 24 bytes, which a cube of up to 47 cells with at most one
\* jump never does
FitsUpToArray ==
    cpc = "encoded" =>
        LET r == encode(ccube)
        IN  /\ r.overrun <=> Len(r.emitted) > 2 * ENC_SIZE
            /\ Len(ccube) <= 2 * ENC_SIZE - 1 => ~r.overrun

\* the two jump nibbles of encode() carry the six low bits of the distance
JumpsRecoveredLow ==
    cpc = "encoded" =>
        LET r == encode(ccube)
        IN  JumpsFrom(r.emitted, 1, noJump) = AsJumpoff([k \in 1..Len(r.jumps) |-> r.jumps[k] % 64])

\* a straight cube of fifty cells has been encoded
LongStemEncoded == cpc = "encoded" /\ ccube = StemCube(50)

\* a cube of at most 47 cells with a jump of eight cells or more has been encoded
FarJumpEncoded ==
    cpc = "encoded" /\ Len(ccube) <= 47 /\ \E k \in 1..Len(encode(ccube).jumps) : encode(ccube).jumps[k] >= 8

=============================================================================
